---- MODULE Spec2Model ----
(***************************************************************************)
(* State-machine model of the trading bot's file-based IPC command bus     *)
(* (src/command_manager.py), the engine's command loop                     *)
(* (src/engine/main_realtime.py) and the auto-exit daemon                  *)
(* (src/engine/auto_exit_daemon.py).                                       *)
(*                                                                         *)
(* Three specifications share the variables:                               *)
(*   SpecIPC     - producers, the engine's consumer loop, engine crashes   *)
(*   SpecTimed   - one send_command call against a discrete 0.2 s clock    *)
(*   SpecDaemon  - the auto-exit daemon scanning one symbol on an exchange *)
(***************************************************************************)
EXTENDS Integers, Sequences, FiniteSets, TLC

VARIABLES
    \* ---- IPC command bus: files and locks -------------------------------
    commandQueueFile,   \* COMMAND_QUEUE_FILE: sequence of command records
    queueLock,          \* holder of COMMAND_QUEUE_FILE.lock, or "free"
    resultFiles,        \* RESULT_DIR: command id -> status, or "absent"
    \* ---- callers (bot listener, dashboard) ------------------------------
    callerPc,           \* position of each caller inside send_command/await_result
    callerId,           \* command_id the caller is working on (0: none)
    callerQueue,        \* the caller's in-memory copy of the queue
    callerRead,         \* the result the caller has read and not yet returned
    returned,           \* what each caller's last call returned
    \* ---- engine command loop --------------------------------------------
    enginePc,           \* position of command_check_loop
    engineQueue,        \* get_command's in-memory copy of the queue
    engineCmd,          \* command_to_process (NoCmd: none)
    engine_running,     \* the engine's global flag read by command_check_loop
    \* ---- history (observations, never read by the program) --------------
    nextId,             \* number of command ids issued so far
    appended,           \* ids in the order their append to the file completed
    delivered,          \* ids in the order get_command returned them
    handled,            \* ids whose handle_command ran to its end
    written,            \* ids whose result record write_result wrote
    retrieved,          \* id -> number of await_result calls that returned its result
    lostByCrash,        \* ids popped and in flight when the engine crashed
    orderLog,           \* orders submitted to the exchange (by the daemon: in
                        \* the scan in progress)
    \* ---- one send_command call against the clock (SpecTimed) -------------
    now,                \* time.time(), in ticks of one polling interval (0.2 s)
    tPc,                \* position of the timed caller
    tTimeout,           \* its timeout argument, in seconds
    tCalled,            \* the time send_command was called
    start_time,         \* await_result's start_time
    tWake,              \* when the current asyncio.sleep(0.2) ends
    tOtherHoldsLock,    \* another process holds COMMAND_QUEUE_FILE.lock
    tResultFile,        \* the result file of the call's id exists
    tReturned,          \* what the call returned
    tReturnedAt,        \* when it returned
    \* ---- the exchange as the auto-exit daemon sees it (SpecDaemon) -------
    position,           \* the symbol's open position (NoPos: flat)
    lastPrice,          \* the ticker's last price
    \* ---- the auto-exit daemon ------------------------------------------
    stateFile,          \* STATE_PATH: <<>> or <<the symbol's entry>>
    daemonPc,           \* position of run()'s loop
    symbols,            \* run(): the symbols of the current scan
    state,              \* run(): the state loaded for the current scan
    backoffs,           \* run(): consecutive failures of the symbol
    \* ---- history of the daemon's effects ---------------------------------
    tpLog,              \* partial take-profits fired for the current position
    restartAt,          \* Len(tpLog) when the daemon was last restarted
    lastTrail,          \* what trail_update did to the stop in the scan in progress
    \* ---- engine main loop (main_realtime.py main_loop) ------------------
    mainPc,             \* position of main_loop
    trading_enabled,    \* the engine's global pause flag
    engineStatus,       \* state last written by write_engine_status
    errorNotified,      \* the main-loop error message was sent to chat
    settingsFile,       \* SETTINGS_FILE: strategy name and model path
    strategy_name,      \* main_loop's local strategy_name
    model_path,         \* app_state.model_path: the model main_loop trades with
    settingsAtCycle,    \* SETTINGS_FILE as it was when the current cycle began
    stopAcked,          \* the success result of a stop_engine command was written
    orderWhilePaused,   \* main_loop's last order was sent with trading_enabled False
    cycleSignal,        \* choose_action of the features the last cycle analysed
    cycleOrder,         \* the last cycle's order: side, "failed", "halted", "none"
    \* ---- Exit Controller (core/exit_manager.py) -------------------------
    ps,                 \* the registered PositionState (NoPs: none)
    exitLog,            \* partial closes _execute_tp ran for the position
    exitResult,         \* "action" of the last evaluate_and_act result
    acceptedStages,     \* take-profit stages whose reduce order was accepted
    sentQty,            \* total quantity of the accepted reduce orders
    closeAllSent,       \* accepted close-all orders for the position
    \* ---- supervisor (main_unified.py) ----------------------------------
    supPc,              \* position of run_all
    monitorPc,          \* position of monitor_system_periodically
    consecutive_warnings, \* the monitor's counter
    checks,             \* results of the monitor's health checks so far
    childState,         \* each child process: running, terminating (exits on
                        \* SIGTERM), ignoring (SIGTERM ignored) or exited
    termAt,             \* when each child was first sent SIGTERM (-1: never)
    waitStart,          \* when the current wait_for(process.wait(), 10) began
    killed,             \* the children sent SIGKILL
    supNow,             \* the supervisor's clock, in ticks of 5 s
    \* ---- safe_market_order (core/pretrade_safety.py) --------------------
    safePc,             \* position of the call: idle, loop, returned
    safeQ,              \* safe_market_order's q: the quantity of the next attempt
    attempt,            \* the loop variable
    min_qty,            \* market['limits']['amount']['min'] (also the step)
    sent,               \* quantities of the orders submitted by the call
    outcomes,           \* what create_order did on each of them
    safeResult,         \* what the call returned
    \* ---- handle_symbol's error backoff (auto_exit_daemon.py) ------------
    bPc,                \* between scans, or inside handle_symbol
    bStep,              \* backoffs[symbol]
    bDelay,             \* seconds handle_symbol slept before touching the symbol
    bErrors,            \* handlings in a row, up to the last, that met an error
    bLast,              \* how the last handling of the symbol went
    \* ---- chat bot conversations (notifier/bot_listener.py) ----------------
    fsmState,           \* the chat's FSM state ("none": no state set)
    fsmData,            \* the chat's FSM data
    symbolPrompt,       \* the symbol keyboard on screen: none, order ("어떤 종목을"), tpsl ("어떤 종목에")
    strategyPrompt,     \* the strategy keyboard is on screen
    flowSteps,          \* inputs the current flow has collected, in order
    cancelled,          \* a cancel was sent during a flow and no flow was started since
    dispatchLog,        \* the last call of send_engine_command made by a flow
    botQueue,           \* commands the bot appended to COMMAND_QUEUE_FILE
    \* the dashboard engine bridge (src/dashboard/api/server.py)
    rtModule,           \* whether the import of RuntimeManager succeeded
    rt,                 \* RuntimeBridge.rt: "None" or "manager"
    is_running_flag,    \* RuntimeManager.is_running_flag
    rtStrategy,         \* RuntimeManager.strategy
    rtSymbol,           \* RuntimeManager.symbol
    lastRequest,        \* the control request answered last and its HTTP status
    \* the exchange client singleton (src/core/bybit_router.py)
    client_instance,    \* _client_instance: 0 for None, else the client's number
    made,               \* clients that were constructed and connected so far
    connected,          \* clients connected since the last close
    lockHolder,         \* the coroutine holding _client_lock
    lockWaiters,        \* the coroutines waiting for _client_lock
    callPc,             \* where each caller of get_bybit_client is
    received,           \* the instance each caller received
    receivedEpoch,      \* the number of closes before it received it
    closePc,            \* where close_bybit_client is
    closes,             \* completed closes
    closedOnes,         \* the instances close() was called on
    gotClosed,          \* per caller: the instance it was handed had been closed
    \* the task manager (src/core/smart_resource_manager.py)
    rmPc,               \* "none" before get_resource_manager, then created/running/stopped
    max_workers,        \* SmartResourceManager.max_workers
    current_workers,    \* SmartResourceManager.current_workers
    metrics_history,    \* the last samples of metrics_history
    task_queue,         \* task_queue: the priorities of the queued tasks
    inFlight,           \* tasks submitted and not yet finished
    lastSample,         \* the last monitoring sample and its adjustment
    \* the RL environment (src/core/trading_env.py)
    envPc,              \* "none", "episode" or "over"
    envCfg,             \* EnvConfig: window, max_steps, random_start
    envRows,            \* self.N = len(self.df_feat)
    start_idx,          \* self.start_idx
    end_idx,            \* self.end_idx
    envI,               \* self.i
    stepsTaken,         \* step() calls since reset()
    max_drawdown_reached, \* self.max_drawdown >= self.cfg.risk_dd_limit
    terminated,         \* terminated as returned by the last step()
    truncated,          \* truncated as returned by the last step()
    \* the backtest candle cache (src/backtest/runner.py)
    cacheFiles,         \* the files of data/cache: name and frame
    lastCall,           \* the last call of get_ohlcv_data and its outcome
    previousCall,       \* the call before it
    \* ---- the daemon's scans over several symbols (auto_exit_daemon.py run) ----
    scanPc,             \* run(): "gathering" the workers or "waiting" SCAN_SEC
    scanSymbols,        \* the symbols the scan in progress listed
    scanBackoffs,       \* backoffs: consecutive failures per symbol
    workerPc,           \* each worker: "absent", "sleeping" (or due), "done"
    wakeAt,             \* when each worker's backoff sleep ends
    stepAtStart,        \* backoffs as the scan in progress found it
    handledAt,          \* when each worker of the scan handled its symbol
    scanClock,          \* seconds since the scan in progress began
    waitUntil,          \* when the wait between scans ends
    scanGap,            \* seconds between the starts of the last two scans
    \* ---- the bot's commands as handle_command takes them ----
    ipcSent,            \* the command and parameters the bot passed to send_command last
    ipcPrevious,        \* the one before
    ipcAnswer,          \* what handle_command makes of ipcSent
    \* ---- the in-process TradingEngine (src/engine/manager.py) ----
    is_running,         \* TradingEngine.is_running
    main_task,          \* TradingEngine.main_task: the number of the last task created
    taskPc,             \* where each _run_loop task is
    cancelRequested,    \* cancel() was called on the task before it was done
    startReported,      \* start() reported success and stop() has not since
    restartsPending,    \* _restart_task tasks in their sleep
    \* ---- the ledger of the RL environment (src/core/trading_env.py) ----
    ledgerCash,         \* self.cash
    ledgerSide,         \* self.side: 1 long, -1 short, 0 flat
    ledgerSize,         \* self.size
    ledgerEntry,        \* self.entry_price
    ledgerEquity,       \* self.equity
    markBefore,         \* cash plus unrealized PnL at the step's price before its action
    lastTradeAction,    \* the action of the last step
    ledgerSteps         \* steps of the episode so far

ipcVars == <<commandQueueFile, queueLock, resultFiles, callerPc, callerId,
             callerQueue, callerRead, returned, enginePc, engineQueue,
             engineCmd, engine_running, nextId, appended, delivered, handled, written, retrieved,
             lostByCrash>>

timedVars == <<now, tPc, tTimeout, tCalled, start_time, tWake, tOtherHoldsLock,
               tResultFile, tReturned, tReturnedAt>>

daemonVars == <<position, lastPrice, stateFile, daemonPc,
                symbols, state, backoffs, tpLog, restartAt, lastTrail>>

\* The command bus without the engine's running flag.
busVars == <<commandQueueFile, queueLock, resultFiles, callerPc, callerId,
             callerQueue, callerRead, returned, enginePc, engineQueue,
             engineCmd, nextId, appended, delivered, handled, written, retrieved,
             lostByCrash>>

loopVars == <<mainPc, trading_enabled, engineStatus, errorNotified, settingsFile,
              strategy_name, model_path, settingsAtCycle, stopAcked,
              orderWhilePaused, cycleSignal, cycleOrder>>

exitVars == <<ps, exitLog, exitResult, acceptedStages, sentQty, closeAllSent>>

supVars == <<supPc, monitorPc, consecutive_warnings, checks, childState, termAt,
             waitStart, killed, supNow>>

safeVars == <<safePc, safeQ, attempt, min_qty, sent, outcomes, safeResult>>

backoffVars == <<bPc, bStep, bDelay, bErrors, bLast>>

botVars == <<fsmState, fsmData, symbolPrompt, strategyPrompt, flowSteps,
             cancelled, dispatchLog, botQueue>>

dashVars == <<rtModule, rt, is_running_flag, rtStrategy, rtSymbol,
              lastRequest>>

clientVars == <<client_instance, made, connected, lockHolder, lockWaiters,
                callPc, received, receivedEpoch, closePc, closes,
               closedOnes, gotClosed>>

rmVars == <<rmPc, max_workers, current_workers, metrics_history, task_queue,
            inFlight, lastSample>>

envVars == <<envPc, envCfg, envRows, start_idx, end_idx, envI, stepsTaken,
             max_drawdown_reached, terminated, truncated>>

cacheVars == <<cacheFiles, lastCall, previousCall>>

scanVars == <<scanPc, scanSymbols, scanBackoffs, workerPc, wakeAt,
              stepAtStart, handledAt, scanClock, waitUntil, scanGap>>

dispatchVars == <<ipcSent, ipcPrevious, ipcAnswer>>

mgrVars == <<is_running, main_task, taskPc, cancelRequested, startReported,
             restartsPending>>

ledgerVars == <<ledgerCash, ledgerSide, ledgerSize, ledgerEntry,
                ledgerEquity, markBefore, lastTradeAction, ledgerSteps>>

laterVars == <<botVars, dashVars, clientVars, rmVars, envVars, cacheVars,
               scanVars, dispatchVars, mgrVars, ledgerVars>>

moreVars == <<loopVars, exitVars, supVars, safeVars, backoffVars, laterVars>>

vars == <<ipcVars, orderLog, timedVars, daemonVars, moreVars>>

(***************************************************************************)
(* Bounds.                                                                 *)
(***************************************************************************)
MaxCommands == 2

Callers == {"bot", "dashboard"}
Ids == 1..MaxCommands
CommandNames == {"get_summary", "order_close", "order_tp", "stop_engine",
                 "no_such_command"}
NoCmd == [id |-> 0, command |-> "none"]

(***************************************************************************)
(* Pure helpers of command_manager.py.                                     *)
(***************************************************************************)
\* queue.append({...}) without the lock's protection would still append at the
\* tail; the mutant prepends instead.
QueueAppendAtHead(queue, cmd) == <<cmd>> \o queue

\* send_command: queue.append({"id": ..., "command": ..., ...})
QueueAppend(queue, cmd) == Append(queue, cmd)

QueueKeepPopped(queue) == queue

\* get_command: queue.pop(0) leaves the rest, which is written back
QueueAfterPop(queue) == Tail(queue)

Range(seq) == {seq[i] : i \in 1..Len(seq)}

IdsOf(queue) == [i \in 1..Len(queue) |-> queue[i].id]

Occurrences(seq, x) == Cardinality({i \in 1..Len(seq) : seq[i] = x})

(***************************************************************************)
(* send_command, producer side.                                            *)
(***************************************************************************)
callerUnchanged == UNCHANGED <<enginePc, engineQueue, engineCmd, engine_running,
                               delivered, handled, written, lostByCrash, orderLog,
                               timedVars, daemonVars, moreVars>>

\* command_id = uuid4(); FileLock acquired; the queue file read.
SendAcquireRead(c) ==
    /\ callerPc[c] = "idle"
    /\ nextId < MaxCommands
    /\ queueLock = "free"
    /\ queueLock' = c
    /\ nextId' = nextId + 1
    /\ callerId' = [callerId EXCEPT ![c] = nextId + 1]
    /\ callerQueue' = [callerQueue EXCEPT ![c] = commandQueueFile]
    /\ callerPc' = [callerPc EXCEPT ![c] = "locked"]
    /\ returned' = [returned EXCEPT ![c] = "none"]
    /\ UNCHANGED <<commandQueueFile, resultFiles, callerRead, appended, retrieved>>
    /\ callerUnchanged

\* queue.append(...); json.dump(queue); lock released; await_result begins.
SendWriteRelease(c) ==
    /\ callerPc[c] = "locked"
    /\ queueLock = c
    /\ \E name \in CommandNames :
         commandQueueFile' =
             QueueAppend(callerQueue[c], [id |-> callerId[c], command |-> name])
    /\ appended' = Append(appended, callerId[c])
    /\ queueLock' = "free"
    /\ callerQueue' = [callerQueue EXCEPT ![c] = <<>>]
    /\ callerPc' = [callerPc EXCEPT ![c] = "polling"]
    /\ UNCHANGED <<resultFiles, callerId, callerRead, returned, nextId, retrieved>>
    /\ callerUnchanged

\* except Timeout: the lock stayed with another process for LOCK_TIMEOUT seconds;
\* a structured error is returned and nothing is appended.
SendLockTimeout(c) ==
    /\ callerPc[c] = "idle"
    /\ nextId < MaxCommands
    /\ queueLock \notin {"free", c}
    /\ returned' = [returned EXCEPT ![c] = "error_lock_timeout"]
    /\ UNCHANGED <<commandQueueFile, queueLock, resultFiles, callerPc, callerId,
                   callerQueue, callerRead, nextId, appended, retrieved>>
    /\ callerUnchanged

(***************************************************************************)
(* await_result.                                                           *)
(***************************************************************************)
\* A direct await_result(command_id, timeout) call on an id issued earlier.
AwaitCall(c) ==
    /\ callerPc[c] = "idle"
    /\ \E id \in Range(appended) :
         callerId' = [callerId EXCEPT ![c] = id]
    /\ callerPc' = [callerPc EXCEPT ![c] = "polling"]
    /\ returned' = [returned EXCEPT ![c] = "none"]
    /\ UNCHANGED <<commandQueueFile, queueLock, resultFiles, callerQueue,
                   callerRead, nextId, appended, retrieved>>
    /\ callerUnchanged

\* if result_file.exists():
AwaitExists(c) ==
    /\ callerPc[c] = "polling"
    /\ resultFiles[callerId[c]] # "absent"
    /\ callerPc' = [callerPc EXCEPT ![c] = "found"]
    /\ UNCHANGED <<commandQueueFile, queueLock, resultFiles, callerId,
                   callerQueue, callerRead, returned, nextId, appended, retrieved>>
    /\ callerUnchanged

\* with result_lock: result = json.load(f).  The lock is released before the
\* unlink.  If the file is gone by now, open() raises and the except branch
\* returns a structured error.
AwaitRead(c) ==
    /\ callerPc[c] = "found"
    /\ \/ /\ resultFiles[callerId[c]] # "absent"
          /\ callerRead' = [callerRead EXCEPT ![c] = resultFiles[callerId[c]]]
          /\ callerPc' = [callerPc EXCEPT ![c] = "unlink"]
          /\ UNCHANGED <<callerId, returned>>
       \/ /\ resultFiles[callerId[c]] = "absent"
          /\ returned' = [returned EXCEPT ![c] = "error_read"]
          /\ callerId' = [callerId EXCEPT ![c] = 0]
          /\ callerPc' = [callerPc EXCEPT ![c] = "idle"]
          /\ UNCHANGED callerRead
    /\ UNCHANGED <<commandQueueFile, queueLock, resultFiles, callerQueue,
                   nextId, appended, retrieved>>
    /\ callerUnchanged

\* result_file.unlink() (an OSError, the file being gone already, is only
\* logged); return result.
AwaitUnlinkReturn(c) ==
    /\ callerPc[c] = "unlink"
    /\ resultFiles' = [resultFiles EXCEPT ![callerId[c]] = "absent"]
    /\ retrieved' = [retrieved EXCEPT ![callerId[c]] = @ + 1]
    /\ returned' = [returned EXCEPT ![c] = callerRead[c]]
    /\ callerRead' = [callerRead EXCEPT ![c] = "none"]
    /\ callerId' = [callerId EXCEPT ![c] = 0]
    /\ callerPc' = [callerPc EXCEPT ![c] = "idle"]
    /\ UNCHANGED <<commandQueueFile, queueLock, callerQueue, nextId, appended>>
    /\ callerUnchanged

\* The while loop ends: time.time() - start_time >= timeout with no result file.
AwaitTimeout(c) ==
    /\ callerPc[c] = "polling"
    /\ resultFiles[callerId[c]] = "absent"
    /\ returned' = [returned EXCEPT ![c] = "error_timeout"]
    /\ callerId' = [callerId EXCEPT ![c] = 0]
    /\ callerPc' = [callerPc EXCEPT ![c] = "idle"]
    /\ UNCHANGED <<commandQueueFile, queueLock, resultFiles, callerQueue,
                   callerRead, nextId, appended, retrieved>>
    /\ callerUnchanged

(***************************************************************************)
(* get_command, consumer side (called by command_check_loop).              *)
(***************************************************************************)
engineUnchanged == UNCHANGED <<callerPc, callerId, callerQueue, callerRead,
                               returned, nextId, appended, retrieved, timedVars,
                               daemonVars, moreVars>>

\* while engine_running: FileLock acquired; the queue file read.
GetAcquireRead ==
    /\ enginePc = "idle"
    /\ engine_running
    /\ queueLock = "free"
    /\ queueLock' = "engine"
    /\ engineQueue' = commandQueueFile
    /\ enginePc' = "locked"
    /\ UNCHANGED <<commandQueueFile, resultFiles, engineCmd, engine_running,
                   delivered, handled, written, lostByCrash, orderLog>>
    /\ engineUnchanged

\* if not queue: return None (the lock is released, the loop sleeps 1 s).
GetReturnNone ==
    /\ enginePc = "locked"
    /\ engineQueue = <<>>
    /\ queueLock' = "free"
    /\ enginePc' = "idle"
    /\ UNCHANGED <<commandQueueFile, resultFiles, engineQueue, engineCmd,
                   engine_running, delivered, handled, written, lostByCrash,
                   orderLog>>
    /\ engineUnchanged

\* command_to_process = queue.pop(0); json.dump(queue); return command_to_process
GetPopWrite ==
    /\ enginePc = "locked"
    /\ engineQueue # <<>>
    /\ engineCmd' = Head(engineQueue)
    /\ commandQueueFile' = QueueAfterPop(engineQueue)
    /\ delivered' = Append(delivered, Head(engineQueue).id)
    /\ queueLock' = "free"
    /\ engineQueue' = <<>>
    /\ enginePc' = "handling"
    /\ UNCHANGED <<resultFiles, engine_running, handled, written, lostByCrash,
                   orderLog>>
    /\ engineUnchanged

(***************************************************************************)
(* handle_command and write_result.                                        *)
(***************************************************************************)
\* What the environment presents to a handler: the status file, the open
\* position, the exchange's answer to an order.
HandlerCases(command) ==
    CASE command = "get_summary" -> {"file_valid", "file_missing", "file_corrupt"}
      [] command = "order_close" -> {"no_position", "order_ok", "order_raises"}
      [] command = "order_tp"    -> {"no_position", "order_ok", "order_raises"}
      [] OTHER -> {"na"}

\* The result dict handle_command ends with, by branch.  file_corrupt makes
\* json.load raise into the outer except; order_raises is caught by the
\* branch's own except; an unrecognised name keeps the initial result.
HandlerResult(command, case) ==
    CASE command = "get_summary" ->
             IF case = "file_valid" THEN "success" ELSE "error"
      [] command \in {"order_close", "order_tp"} ->
             IF case = "no_position" THEN "info"
             ELSE IF case = "order_ok" THEN "success" ELSE "error"
      [] command = "stop_engine" -> "success"
      [] OTHER -> "error"

\* The orders a handler submits: order_close goes through send_order with
\* params=None, order_tp/order_sl through create_order with reduceOnly.
HandlerOrders(command, case) ==
    IF case \in {"order_ok", "order_raises"}
    THEN CASE command = "order_close" ->
                  {[source |-> "engine.order_close", exit |-> TRUE, reduceOnly |-> FALSE]}
           [] command = "order_tp" ->
                  {[source |-> "engine.order_tp", exit |-> TRUE, reduceOnly |-> TRUE]}
           [] OTHER -> {}
    ELSE {}

WriteOnlyOnSuccess(command_id, status) == command_id # 0 /\ status = "success"

\* if command_id: cm.write_result(command_id, result)
WritesResult(command_id, status) == command_id # 0

handle_command ==
    /\ enginePc = "handling"
    /\ \E case \in HandlerCases(engineCmd.command) :
         LET status == HandlerResult(engineCmd.command, case) IN
         /\ orderLog' = orderLog \cup HandlerOrders(engineCmd.command, case)
         /\ IF WritesResult(engineCmd.id, status)
            THEN /\ resultFiles' = [resultFiles EXCEPT ![engineCmd.id] = status]
                 /\ written' = written \cup {engineCmd.id}
            ELSE UNCHANGED <<resultFiles, written>>
    /\ engine_running' = IF engineCmd.command = "stop_engine" THEN FALSE
                         ELSE engine_running
    /\ handled' = handled \cup {engineCmd.id}
    /\ engineCmd' = NoCmd
    /\ enginePc' = "idle"
    /\ UNCHANGED <<commandQueueFile, queueLock, engineQueue, delivered,
                   lostByCrash>>
    /\ engineUnchanged

\* while engine_running: is false after stop_engine; the loop ends.
LoopExit ==
    /\ enginePc = "idle"
    /\ ~engine_running
    /\ enginePc' = "stopped"
    /\ UNCHANGED <<commandQueueFile, queueLock, resultFiles, engineQueue,
                   engineCmd, engine_running, delivered, handled, written,
                   lostByCrash, orderLog>>
    /\ engineUnchanged

\* The engine process dies at any point of the loop; the OS releases its lock,
\* its memory is gone.
EngineCrash ==
    /\ enginePc \in {"idle", "locked", "handling"}
    /\ enginePc' = "down"
    /\ queueLock' = IF queueLock = "engine" THEN "free" ELSE queueLock
    /\ lostByCrash' = IF enginePc = "handling" THEN lostByCrash \cup {engineCmd.id}
                      ELSE lostByCrash
    /\ engineCmd' = NoCmd
    /\ engineQueue' = <<>>
    /\ UNCHANGED <<commandQueueFile, resultFiles, engine_running, delivered,
                   handled, written, orderLog>>
    /\ engineUnchanged

\* The engine process is started again: engine_running = True at module load.
EngineRestart ==
    /\ enginePc \in {"down", "stopped"}
    /\ enginePc' = "idle"
    /\ engine_running' = TRUE
    /\ UNCHANGED <<commandQueueFile, queueLock, resultFiles, engineQueue,
                   engineCmd, delivered, handled, written, lostByCrash, orderLog>>
    /\ engineUnchanged

(***************************************************************************)
(* send_command and await_result against the clock.  Time is counted in    *)
(* ticks of one polling interval; it passes only while the caller waits    *)
(* for the queue lock or sleeps between two polls.                         *)
(***************************************************************************)
\* LOCK_TIMEOUT = 5 (seconds)
LOCK_TIMEOUT == 5

\* await asyncio.sleep(0.2): five polling intervals make one second
TicksPerSecond == 5

\* The largest timeout argument tried, in seconds.
MaxTimeout == 2

\* One asyncio.sleep(0.2) lasts one tick.
PollTicks == 1

LockNeverExpires(waited) == FALSE

\* FileLock(..., timeout=LOCK_TIMEOUT): acquire() raises Timeout once it has
\* waited LOCK_TIMEOUT seconds.
LockWaitExpired(waited) == waited >= LOCK_TIMEOUT * TicksPerSecond

\* while time.time() - start_time < timeout:
LoopContinues(elapsed, timeout) == elapsed < timeout * TicksPerSecond

TimedIdle ==
    /\ now = 0
    /\ tPc = "idle"
    /\ tTimeout = 0
    /\ tCalled = 0
    /\ start_time = 0
    /\ tWake = 0
    /\ tOtherHoldsLock = FALSE
    /\ tResultFile = FALSE
    /\ tReturned = "none"
    /\ tReturnedAt = 0

timedUnchanged == UNCHANGED <<ipcVars, orderLog, daemonVars, moreVars>>

\* send_command(command, params, timeout) is called.
TimedCall ==
    /\ tPc = "idle"
    /\ \E t \in 1..MaxTimeout : tTimeout' = t
    /\ tCalled' = now
    /\ tPc' = "lock_wait"
    /\ UNCHANGED <<now, start_time, tWake, tOtherHoldsLock, tResultFile,
                   tReturned, tReturnedAt>>
    /\ timedUnchanged

\* with queue_lock: the lock is free; the command is appended, the lock
\* released, await_result entered: start_time = time.time().
TimedAcquireAppend ==
    /\ tPc = "lock_wait"
    /\ ~tOtherHoldsLock
    /\ start_time' = now
    /\ tPc' = "polling"
    /\ UNCHANGED <<now, tTimeout, tCalled, tWake, tOtherHoldsLock, tResultFile,
                   tReturned, tReturnedAt>>
    /\ timedUnchanged

\* except Timeout: return {"status": "error", ... "(Lock Timeout)"}
TimedLockTimeout ==
    /\ tPc = "lock_wait"
    /\ tOtherHoldsLock
    /\ LockWaitExpired(now - tCalled)
    /\ tReturned' = "error_lock_timeout"
    /\ tReturnedAt' = now
    /\ tPc' = "done"
    /\ UNCHANGED <<now, tTimeout, tCalled, start_time, tWake, tOtherHoldsLock,
                   tResultFile>>
    /\ timedUnchanged

\* One pass of await_result's loop: the loop condition, result_file.exists(),
\* then either the read-delete-return or asyncio.sleep(0.2).
TimedPoll ==
    /\ tPc = "polling"
    /\ IF ~LoopContinues(now - start_time, tTimeout)
       THEN /\ tReturned' = "error_timeout"
            /\ tReturnedAt' = now
            /\ tPc' = "done"
            /\ UNCHANGED <<tWake, tResultFile>>
       ELSE IF tResultFile
       THEN /\ tReturned' = "result"
            /\ tReturnedAt' = now
            /\ tResultFile' = FALSE
            /\ tPc' = "done"
            /\ UNCHANGED tWake
       ELSE /\ tWake' = now + PollTicks
            /\ tPc' = "sleeping"
            /\ UNCHANGED <<tReturned, tReturnedAt, tResultFile>>
    /\ UNCHANGED <<now, tTimeout, tCalled, start_time, tOtherHoldsLock>>
    /\ timedUnchanged

\* asyncio.sleep(0.2) returns.
TimedWake ==
    /\ tPc = "sleeping"
    /\ now >= tWake
    /\ tPc' = "polling"
    /\ UNCHANGED <<now, tTimeout, tCalled, start_time, tWake, tOtherHoldsLock,
                   tResultFile, tReturned, tReturnedAt>>
    /\ timedUnchanged

\* The clock advances while the caller is blocked.
Tick ==
    /\ \/ tPc = "lock_wait" /\ tOtherHoldsLock /\ ~LockWaitExpired(now - tCalled)
       \/ tPc = "sleeping" /\ now < tWake
    /\ now' = now + 1
    /\ UNCHANGED <<tPc, tTimeout, tCalled, start_time, tWake, tOtherHoldsLock,
                   tResultFile, tReturned, tReturnedAt>>
    /\ timedUnchanged

\* Another producer or the engine takes the queue lock, or gives it back.
OtherLockChange ==
    /\ tPc \in {"idle", "lock_wait"}
    /\ tOtherHoldsLock' = ~tOtherHoldsLock
    /\ UNCHANGED <<now, tPc, tTimeout, tCalled, start_time, tWake, tResultFile,
                   tReturned, tReturnedAt>>
    /\ timedUnchanged

\* The engine's write_result creates the result file of the appended command.
ResultAppears ==
    /\ tPc \in {"polling", "sleeping"}
    /\ ~tResultFile
    /\ tResultFile' = TRUE
    /\ UNCHANGED <<now, tPc, tTimeout, tCalled, start_time, tWake,
                   tOtherHoldsLock, tReturned, tReturnedAt>>
    /\ timedUnchanged

NextTimed ==
    \/ TimedCall
    \/ TimedAcquireAppend
    \/ TimedLockTimeout
    \/ TimedPoll
    \/ TimedWake
    \/ Tick
    \/ OtherLockChange
    \/ ResultAppears

(***************************************************************************)
(* The auto-exit daemon (src/engine/auto_exit_daemon.py) on one symbol.    *)
(* Prices are whole ticks and amounts whole lots: the market's price       *)
(* precision is 0 decimals, its amount step and minimum are one lot.       *)
(***************************************************************************)
\* TP_PCT = 0.008, SL_PCT = 0.005, TRAIL_PCT = 0.006, TP2_EXTRA_PCT = 0.004,
\* in thousandths; TP1_RATIO = TP2_RATIO = 0.5, in hundredths.
TP_PCT == 8
SL_PCT == 5
TRAIL_PCT == 6
TP2_EXTRA_PCT == 4
TP1_RATIO == 50
TP2_RATIO == 50

\* The largest number of consecutive failures counted.
MaxBackoff == 1

Sides == {"long", "short"}
Entries == {1000}
Qtys == {4}
Prices == {987, 1000, 1013}
market == [amount_step |-> 1, amount_min |-> 1]

NoPos == [side |-> "none", entry |-> 0, qty |-> 0, stopLoss |-> 0,
          takeProfit |-> 0]

\* handle_symbol: st.get(symbol, {"hh": 0.0, "ll": None, "tp1_done": False, ...});
\* ll = 0 stands for None.
DefaultSymState == [hh |-> 0, ll |-> 0, tp1_done |-> FALSE, tp2_done |-> FALSE]

\* Python's round(): n/d to the nearest integer, ties to even (n >= 0, d > 0).
RoundHalfEven(n, d) ==
    LET q == n \div d
        r == n % d
    IN  IF 2 * r < d THEN q
        ELSE IF 2 * r > d THEN q + 1
        ELSE IF q % 2 = 0 THEN q ELSE q + 1

\* _round_price with precision 0: round(p * 1) / 1, for the price n/d
_round_price(n, d) == IF n <= 0 THEN 0 ELSE RoundHalfEven(n, d)

\* _round_amount for the amount n/d: precision, then step, then the minimum
_round_amount(n, d) ==
    IF n <= 0 THEN 0
    ELSE LET amt == RoundHalfEven(n, d)
             stepped == RoundHalfEven(amt, market.amount_step) * market.amount_step
         IN  IF stepped < market.amount_min THEN market.amount_min ELSE stepped

\* _tp_targets(side, entry, market): (tp1, tp2, sl)
_tp_targets(side, entry) ==
    IF side = "long"
    THEN [tp1 |-> _round_price(entry * (1000 + TP_PCT), 1000),
          tp2 |-> _round_price(entry * (1000 + TP_PCT) * (1000 + TP2_EXTRA_PCT),
                               1000 * 1000),
          sl  |-> _round_price(entry * (1000 - SL_PCT), 1000)]
    ELSE [tp1 |-> _round_price(entry * (1000 - TP_PCT), 1000),
          tp2 |-> _round_price(entry * (1000 - TP_PCT) * (1000 - TP2_EXTRA_PCT),
                               1000 * 1000),
          sl  |-> _round_price(entry * (1000 + SL_PCT), 1000)]

\* How a position-level TP/SL change ends: edit_position exists and succeeds;
\* it exists and raises; it does not exist and the order-with-params fallback
\* is accepted; or the fallback is rejected too.
Mechanism(hasEdit, accepted) ==
    IF hasEdit THEN (IF accepted THEN "edit" ELSE "edit_raises")
    ELSE (IF accepted THEN "order_params" ELSE "rejected")

\* _try_order_with_params: create_order(type="market", amount=0, params=params)
\* with params holding only takeProfit/stopLoss.
FallbackOrders(mech) ==
    IF mech \in {"order_params", "rejected"}
    THEN {[source |-> "daemon.order_with_params", exit |-> TRUE, reduceOnly |-> FALSE]}
    ELSE {}

Applied(mech) == mech \in {"edit", "order_params"}

\* ensure_bracket: the position after it
ensure_bracket(pos, mech) ==
    LET t == _tp_targets(pos.side, pos.entry)
        cur_tp == pos.takeProfit
        cur_sl == pos.stopLoss
    IN  IF (cur_tp > 0 /\ cur_sl > 0) \/ ~Applied(mech) THEN pos
        ELSE [pos EXCEPT !.takeProfit = IF cur_tp <= 0 THEN t.tp1 ELSE cur_tp,
                         !.stopLoss   = IF cur_sl <= 0 THEN t.sl ELSE cur_sl]

BracketOrders(pos, mech) ==
    IF pos.takeProfit > 0 /\ pos.stopLoss > 0 THEN {} ELSE FallbackOrders(mech)

\* trail_update: the stop it aims at (0: it returns before computing one)
TrailTarget(side, sym_st) ==
    IF side = "long"
    THEN IF sym_st.hh <= 0 THEN 0
         ELSE _round_price(sym_st.hh * (1000 - TRAIL_PCT), 1000)
    ELSE IF sym_st.ll = 0 THEN 0
         ELSE _round_price(sym_st.ll * (1000 + TRAIL_PCT), 1000)

\* trail_update: it goes on to move the stop unless
\* cur_sl > 0 and abs(cur_sl - target_sl) < 1e-12
TrailMoves(side, cur_sl, target_sl) ==
    /\ target_sl > 0
    /\ ~(cur_sl > 0 /\ cur_sl = target_sl)

\* What a move of the stop from cur_sl to target_sl does to it.
StopMove(side, cur_sl, target_sl) ==
    IF cur_sl <= 0 THEN "set"
    ELSE IF (side = "long" /\ target_sl > cur_sl) \/ (side = "short" /\ target_sl < cur_sl)
    THEN "tightened"
    ELSE "loosened"

\* The exchange fills a reduce-only market order against the position.
Reduce(pos, amount) ==
    IF amount >= pos.qty THEN NoPos ELSE [pos EXCEPT !.qty = pos.qty - amount]

daemonUnchanged == UNCHANGED <<ipcVars, timedVars, moreVars>>

Min(a, b) == IF a < b THEN a ELSE b

\* _slim_state(st, keep)
_slim_state(st, keep) == IF "SYM" \in keep THEN st ELSE <<>>

\* handle_symbol: if not sym_st.get("tp1_done", False): / ... and not
\* sym_st.get("tp2_done", False): the stage is still to fire
StageOpen(done) == ~done

\* run(): positions fetched with an open position on the symbol; the state
\* file loaded; the worker for the symbol is about to run.
ScanBegin ==
    /\ daemonPc = "sleep"
    /\ position.qty # 0
    /\ symbols' = {"SYM"}
    /\ state' = stateFile
    /\ daemonPc' = "handle"
    /\ UNCHANGED <<position, lastPrice, stateFile, backoffs,
                   tpLog, restartAt, lastTrail, orderLog>>
    /\ daemonUnchanged

\* run(): no open position: nothing to gather, and
\* _atomic_save(STATE_PATH, _slim_state(state, [])) empties the state file.
ScanFlat ==
    /\ daemonPc = "sleep"
    /\ position.qty = 0
    /\ symbols' = {}
    /\ state' = <<>>
    /\ stateFile' = _slim_state(stateFile, {})
    /\ UNCHANGED <<position, lastPrice, daemonPc, backoffs,
                   tpLog, restartAt, lastTrail, orderLog>>
    /\ daemonUnchanged

\* handle_symbol(client, symbol, st, backoffs), start to end.
handle_symbol ==
    /\ daemonPc = "handle"
    /\ \/ \* fetch_positions raised NetworkError/ExchangeError
          /\ backoffs' = Min(backoffs + 1, MaxBackoff)
          /\ orderLog' = {}
          /\ lastTrail' = "none"
          /\ UNCHANGED <<position, state, tpLog>>
       \/ \* if not pos: backoffs[symbol] = 0; return
          /\ position.qty = 0
          /\ backoffs' = 0
          /\ orderLog' = {}
          /\ lastTrail' = "none"
          /\ UNCHANGED <<position, state, tpLog>>
       \/ \E tickerOk \in BOOLEAN, orderOk \in BOOLEAN,
             hasEdit \in BOOLEAN, bracketOk \in BOOLEAN, trailOk \in BOOLEAN :
           /\ position.qty # 0
           /\ \* the position is open: the handler runs to its end
             LET side == position.side
                 qty == position.qty
                 bracketMech == Mechanism(hasEdit, bracketOk)
                 trailMech == Mechanism(hasEdit, trailOk)
                 sym_st0 == IF state = <<>> THEN DefaultSymState ELSE state[1]
                 \* HH/LL, skipped when the ticker gave NaN
                 sym_st1 ==
                     IF ~tickerOk THEN sym_st0
                     ELSE IF side = "long"
                     THEN IF lastPrice > sym_st0.hh
                          THEN [sym_st0 EXCEPT !.hh = lastPrice] ELSE sym_st0
                     ELSE IF sym_st0.ll = 0 \/ lastPrice < sym_st0.ll
                          THEN [sym_st0 EXCEPT !.ll = lastPrice] ELSE sym_st0
                 pos1 == ensure_bracket(position, bracketMech)
                 t == _tp_targets(side, position.entry)
                 hit1 == tickerOk /\ IF side = "long" THEN lastPrice >= t.tp1
                                     ELSE lastPrice <= t.tp1
                 hit2 == tickerOk /\ IF side = "long" THEN lastPrice >= t.tp2
                                     ELSE lastPrice <= t.tp2
                 q1 == _round_amount(qty * TP1_RATIO, 100)
                 q2 == _round_amount(qty * TP2_RATIO, 100)
                 fired1 == StageOpen(sym_st1.tp1_done) /\ hit1 /\ q1 > 0 /\ orderOk
                 fired2 == /\ ~fired1
                           /\ sym_st1.tp1_done
                           /\ StageOpen(sym_st1.tp2_done)
                           /\ hit2 /\ q2 > 0 /\ orderOk
                 tried == \/ StageOpen(sym_st1.tp1_done) /\ hit1 /\ q1 > 0
                          \/ /\ sym_st1.tp1_done /\ StageOpen(sym_st1.tp2_done)
                             /\ hit2 /\ q2 > 0
                 sym_st2 == [sym_st1 EXCEPT !.tp1_done = @ \/ fired1,
                                            !.tp2_done = @ \/ fired2]
                 pos2 == IF fired1 THEN Reduce(pos1, q1)
                         ELSE IF fired2 THEN Reduce(pos1, q2) ELSE pos1
                 target_sl == TrailTarget(side, sym_st2)
                 moves == pos2.qty # 0 /\ TrailMoves(side, pos2.stopLoss, target_sl)
                 pos3 == IF moves /\ Applied(trailMech)
                         THEN [pos2 EXCEPT !.stopLoss = target_sl] ELSE pos2
             IN
                /\ position' = pos3
                /\ state' = <<sym_st2>>
                /\ backoffs' = 0
                /\ tpLog' =
                     IF fired1
                     THEN Append(tpLog, [portion |-> "TP1", amount |-> q1, qty |-> qty])
                     ELSE IF fired2
                     THEN Append(tpLog, [portion |-> "TP2", amount |-> q2, qty |-> qty])
                     ELSE tpLog
                /\ lastTrail' =
                     IF moves /\ Applied(trailMech)
                     THEN StopMove(side, pos2.stopLoss, target_sl)
                     ELSE "none"
                /\ orderLog' = BracketOrders(position, bracketMech)
                     \cup (IF tried
                           THEN {[source |-> "daemon.take_profit", exit |-> TRUE,
                                  reduceOnly |-> TRUE]}
                           ELSE {})
                     \cup (IF moves THEN FallbackOrders(trailMech) ELSE {})
    /\ daemonPc' = "save"
    /\ UNCHANGED <<lastPrice, stateFile, symbols, restartAt>>
    /\ daemonUnchanged

\* run(): _atomic_save(STATE_PATH, _slim_state(state, symbols)), then the wait
\* of SCAN_SEC.
ScanSave ==
    /\ daemonPc = "save"
    /\ stateFile' = _slim_state(state, symbols)
    /\ daemonPc' = "sleep"
    /\ symbols' = {}
    /\ orderLog' = {}
    /\ lastTrail' = "none"
    /\ UNCHANGED <<position, lastPrice, state, backoffs, tpLog, restartAt>>
    /\ daemonUnchanged

\* The daemon stops (between scans) or is killed (anywhere): its memory is gone,
\* the state file stays as last saved.
DaemonStopOrCrash ==
    /\ daemonPc \in {"sleep", "handle", "save"}
    /\ daemonPc' = "down"
    /\ symbols' = {}
    /\ state' = <<>>
    /\ backoffs' = 0
    /\ orderLog' = {}
    /\ lastTrail' = "none"
    /\ UNCHANGED <<position, lastPrice, stateFile, tpLog, restartAt>>
    /\ daemonUnchanged

\* The daemon is started again.
DaemonRestart ==
    /\ daemonPc = "down"
    /\ daemonPc' = "sleep"
    /\ restartAt' = Len(tpLog)
    /\ UNCHANGED <<position, lastPrice, stateFile, symbols,
                   state, backoffs, tpLog, lastTrail, orderLog>>
    /\ daemonUnchanged

\* The market moves.  A scan reads the price once, in handle_symbol, so a move
\* during a scan is a move before or after it.
PriceMove ==
    /\ daemonPc \in {"sleep", "down"}
    /\ \E p \in Prices \ {lastPrice} : lastPrice' = p
    /\ UNCHANGED <<position, stateFile, daemonPc, symbols,
                   state, backoffs, tpLog, restartAt, lastTrail, orderLog>>
    /\ daemonUnchanged

\* The trading engine opens a position on the symbol.
PositionOpen ==
    /\ position = NoPos
    /\ \E side \in Sides, entry \in Entries, qty \in Qtys :
         position' = [side |-> side, entry |-> entry, qty |-> qty,
                      stopLoss |-> 0, takeProfit |-> 0]
    /\ tpLog' = <<>>
    /\ restartAt' = 0
    /\ UNCHANGED <<lastPrice, stateFile, daemonPc, symbols, state, backoffs,
                   lastTrail, orderLog>>
    /\ daemonUnchanged

\* The position is closed on the exchange: its stop or take-profit triggers, or
\* the operator closes it.
PositionClose ==
    /\ position # NoPos
    /\ position' = NoPos
    /\ UNCHANGED <<lastPrice, stateFile, daemonPc, symbols,
                   state, backoffs, tpLog, restartAt, lastTrail, orderLog>>
    /\ daemonUnchanged

DaemonIdle ==
    /\ position = NoPos
    /\ lastPrice = 1000
    /\ stateFile = <<>>
    /\ daemonPc = "sleep"
    /\ symbols = {}
    /\ state = <<>>
    /\ backoffs = 0
    /\ tpLog = <<>>
    /\ restartAt = 0
    /\ lastTrail = "none"

NextDaemon ==
    \/ ScanBegin
    \/ ScanFlat
    \/ handle_symbol
    \/ ScanSave
    \/ DaemonStopOrCrash
    \/ DaemonRestart
    \/ PriceMove
    \/ PositionOpen
    \/ PositionClose

(***************************************************************************)
(* The engine's trading loop (src/engine/main_realtime.py main_loop) and   *)
(* its command task (command_check_loop, handle_command) in one event      *)
(* loop: a step runs from one await to the next.  A call into another      *)
(* module (symbol scan, feature extraction, recommender, exchange) returns *)
(* or raises.                                                              *)
(***************************************************************************)
Strategies == {"ppo", "snake_ma"}

\* The model file a strategy's settings name.
ModelOf(strategy) == IF strategy = "ppo" THEN "ppo_model.zip" ELSE "snake_ma.zip"

\* _read_settings(): the defaults when SETTINGS_FILE does not exist
\* The keys of SETTINGS_FILE besides the strategy's: the ones the client
\* factory and the config loader read, and the migrator's sub-objects.
OtherSettingsKeys == {"is_testnet", "pretrade_policy", "engine", "risk", "telegram"}

DefaultSettings == [strategy_name |-> "ppo", model_path |-> ModelOf("ppo"),
                    other_keys |-> OtherSettingsKeys]

\* handle_command, engine_switch_strategy: the dictionary dumped to
\* SETTINGS_FILE (strategy_name, model_path, strategy_timeframe)
new_settings(strategy, path) ==
    [strategy_name |-> strategy, model_path |-> path, other_keys |-> {}]

ControlCommands == {"stop_engine", "engine_pause", "engine_resume",
                    "engine_switch_strategy"}

loopUnchanged == UNCHANGED <<busVars, orderLog, timedVars, daemonVars, exitVars,
                             supVars, safeVars, backoffVars, laterVars>>

\* finally: resource_manager.stop(); command_task.cancel(); main_loop returns.
MainReturns == mainPc' = "returned"

\* except Exception as e: (around the whole while loop) write_engine_status(
\* "ERROR", ...), send_telegram(...), safe_sleep(30)
MainLoopError ==
    /\ engineStatus' = "ERROR"
    /\ errorNotified' = TRUE
    /\ mainPc' = "error_backoff"

\* while engine_running: the head of a cycle, up to its first await.
MainCycleTop ==
    /\ mainPc = "cycle_top"
    /\ IF ~engine_running
       THEN /\ MainReturns
            /\ UNCHANGED <<engineStatus, settingsAtCycle>>
       ELSE /\ settingsAtCycle' = settingsFile
            /\ IF ~trading_enabled
               THEN engineStatus' = "PAUSED" /\ mainPc' = "sleeping"
               ELSE engineStatus' = "SCANNING" /\ mainPc' = "scanning"
    /\ UNCHANGED <<engine_running, trading_enabled, errorNotified, settingsFile,
                   strategy_name, model_path, stopAcked,
                   orderWhilePaused, cycleSignal, cycleOrder>>
    /\ loopUnchanged

\* get_realtime_symbols, fetch_top_symbols_data, the symbol selector.
MainScanDone ==
    /\ mainPc = "scanning"
    /\ \E outcome \in {"no_data", "symbols", "raises"} :
         CASE outcome = "no_data" ->
                /\ engineStatus' = "WAITING"
                /\ mainPc' = "sleeping"
                /\ UNCHANGED errorNotified
           [] outcome = "symbols" ->
                /\ mainPc' = "analysing"
                /\ UNCHANGED <<engineStatus, errorNotified>>
           [] outcome = "raises" -> MainLoopError
    /\ UNCHANGED <<engine_running, trading_enabled, settingsFile, strategy_name,
                   model_path, settingsAtCycle, stopAcked,
                   orderWhilePaused, cycleSignal, cycleOrder>>
    /\ loopUnchanged

\* Features of the primary timeframe that choose_action reads; rsi and
\* stoch_k are absent and take their defaults, 50.
FeatureSets ==
    [golden_cross : {0, 1}, dead_cross : {0, 1}, momentum : {-1, 0, 1},
     is_downtrend : BOOLEAN]

NoFeatures == [golden_cross |-> 0, dead_cross |-> 0, momentum |-> 0,
               is_downtrend |-> FALSE]

\* strategy_recommender.choose_action with the default thresholds: "hold"
\* without a cross and momentum, else the larger of two scores if it is at
\* least 2 and leads by at least 2.
choose_action(f) ==
    LET buy_score == (IF f.golden_cross = 1 THEN 2 ELSE 0)
                       + (IF f.momentum > 0 THEN 1 ELSE 0)
                       + (IF ~f.is_downtrend THEN 1 ELSE 0)
        sell_score == (IF f.dead_cross = 1 THEN 2 ELSE 0)
                        + (IF f.momentum < 0 THEN 1 ELSE 0)
                        + (IF f.is_downtrend THEN 1 ELSE 0)
        diff == IF buy_score > sell_score THEN buy_score - sell_score
                ELSE sell_score - buy_score
    IN  IF f.golden_cross = 0 /\ f.dead_cross = 0 /\ f.momentum = 0
        THEN "hold"
        ELSE IF (buy_score < 2 /\ sell_score < 2) \/ diff < 2 THEN "hold"
        ELSE IF sell_score > buy_score THEN "sell"
        ELSE "buy"

recommend_first_argument(args, features) == choose_action(args[1])

\* strategy_recommender.ai_recommend_strategy_live(*args, **kwargs): the
\* recommended action.  The features are the keyword argument "features" or
\* the only positional argument; a call with several positional arguments
\* and no keyword has no features and is answered with "hold".
ai_recommend_strategy_live(args, features) ==
    IF features # NoFeatures THEN choose_action(features)
    ELSE IF Len(args) = 1 THEN choose_action(args[1])
    ELSE "hold"

\* side = 'buy' if action == 'long' else 'sell'
OrderSide(action) == IF action = "long" THEN "buy" ELSE "sell"

\* The branch of a recommendation other than "hold": get_last_price,
\* get_balance, the MIN_BALANCE halt, normalize_qty and send_order; the
\* order's own exceptions are caught inside the cycle.  trading_enabled is
\* not read again before send_order.
MainExecuteDone(action, execution) ==
    IF execution = "low_balance"
    THEN /\ engineStatus' = "HALTED"
         /\ engine_running' = FALSE
         /\ MainReturns
         /\ cycleOrder' = "halted"
         /\ UNCHANGED orderWhilePaused
    ELSE /\ engineStatus' = "EXECUTING"
         /\ mainPc' = "sleeping"
         /\ cycleOrder' = IF execution = "order_sent" THEN OrderSide(action)
                          ELSE "failed"
         /\ orderWhilePaused' =
               IF execution = "order_sent" THEN ~trading_enabled
               ELSE orderWhilePaused
         /\ UNCHANGED engine_running

\* Candles and features per symbol, then ai_recommend_strategy_live(
\* valid_results, model, strategy_name, TOP_SYMBOLS_N) and what follows the
\* recommendation.  cycleSignal records what choose_action makes of the
\* features analysed.
MainAnalyseDone ==
    /\ mainPc = "analysing"
    /\ \E outcome \in {"no_features", "features", "raises"} :
         CASE outcome = "no_features" ->
                /\ engineStatus' = "WAITING"
                /\ mainPc' = "sleeping"
                /\ cycleSignal' = "none"
                /\ cycleOrder' = "none"
                /\ UNCHANGED <<errorNotified, engine_running, orderWhilePaused>>
           [] outcome = "features" ->
                \E valid_results \in FeatureSets,
                   execution \in {"low_balance", "order_sent", "order_fails"} :
                   LET action == ai_recommend_strategy_live(
                                    <<valid_results, "model", strategy_name,
                                      "TOP_SYMBOLS_N">>, NoFeatures)
                   IN  /\ cycleSignal' = choose_action(valid_results)
                       /\ UNCHANGED errorNotified
                       /\ IF action = "hold"
                          THEN /\ engineStatus' = "WATCHING"
                               /\ mainPc' = "sleeping"
                               /\ cycleOrder' = "none"
                               /\ UNCHANGED <<engine_running, orderWhilePaused>>
                          ELSE MainExecuteDone(action, execution)
           [] outcome = "raises" ->
                /\ MainLoopError
                /\ cycleSignal' = "none"
                /\ cycleOrder' = "none"
                /\ UNCHANGED <<engine_running, orderWhilePaused>>
    /\ UNCHANGED <<trading_enabled, settingsFile, strategy_name, model_path,
                   settingsAtCycle, stopAcked>>
    /\ loopUnchanged

\* safe_sleep(...) at the end of a cycle returns.
MainSleepDone ==
    /\ mainPc = "sleeping"
    /\ mainPc' = "cycle_top"
    /\ UNCHANGED <<engine_running, trading_enabled, engineStatus, errorNotified,
                   settingsFile, strategy_name, model_path, settingsAtCycle,
                   stopAcked,
                   orderWhilePaused, cycleSignal, cycleOrder>>
    /\ loopUnchanged

\* safe_sleep(30) of the error handler returns; control leaves the try
\* statement, which encloses the while loop.
MainErrorBackoffDone ==
    /\ mainPc = "error_backoff"
    /\ MainReturns
    /\ UNCHANGED <<engine_running, trading_enabled, engineStatus, errorNotified,
                   settingsFile, strategy_name, model_path, settingsAtCycle,
                   stopAcked,
                   orderWhilePaused, cycleSignal, cycleOrder>>
    /\ loopUnchanged

\* One pass of command_check_loop with a control command: handle_command's
\* branch and write_result.  The task runs while main_loop is suspended.
command_check_loop ==
    /\ mainPc # "returned"
    /\ engine_running
    /\ \E command \in ControlCommands, strategy \in Strategies, saved \in BOOLEAN :
         CASE command = "stop_engine" ->
                /\ engine_running' = FALSE
                /\ stopAcked' = TRUE
                /\ UNCHANGED <<trading_enabled, settingsFile>>
           [] command = "engine_pause" ->
                /\ trading_enabled' = FALSE
                /\ UNCHANGED <<engine_running, stopAcked, settingsFile>>
           [] command = "engine_resume" ->
                /\ trading_enabled' = TRUE
                /\ UNCHANGED <<engine_running, stopAcked, settingsFile>>
           [] command = "engine_switch_strategy" ->
                /\ settingsFile' =
                     IF saved THEN new_settings(strategy, ModelOf(strategy))
                     ELSE settingsFile
                /\ UNCHANGED <<engine_running, stopAcked, trading_enabled>>
    /\ UNCHANGED <<mainPc, engineStatus, errorNotified, strategy_name, model_path,
                   settingsAtCycle, orderWhilePaused, cycleSignal, cycleOrder>>
    /\ loopUnchanged

\* The engine process is started again: the module's globals are reset, the
\* model is loaded, main_loop reads the settings once and enters the loop.
EngineProcessStart ==
    /\ mainPc = "returned"
    /\ engine_running' = TRUE
    /\ trading_enabled' = TRUE
    /\ strategy_name' = settingsFile.strategy_name
    /\ \E s \in Strategies : model_path' = ModelOf(s)
    /\ settingsAtCycle' = settingsFile
    /\ errorNotified' = FALSE
    /\ stopAcked' = FALSE
    /\ orderWhilePaused' = FALSE
    /\ cycleSignal' = "none"
    /\ cycleOrder' = "none"
    /\ mainPc' = "cycle_top"
    /\ UNCHANGED <<engineStatus, settingsFile>>
    /\ loopUnchanged

LoopIdle ==
    /\ mainPc = "cycle_top"
    /\ trading_enabled = TRUE
    /\ engineStatus = "RUNNING"
    /\ errorNotified = FALSE
    /\ settingsFile = DefaultSettings
    /\ strategy_name = DefaultSettings.strategy_name
    /\ model_path = DefaultSettings.model_path
    /\ settingsAtCycle = DefaultSettings
    /\ stopAcked = FALSE
    /\ orderWhilePaused = FALSE
    /\ cycleSignal = "none"
    /\ cycleOrder = "none"

NextEngine ==
    \/ MainCycleTop
    \/ MainScanDone
    \/ MainAnalyseDone
    \/ MainSleepDone
    \/ MainErrorBackoffDone
    \/ command_check_loop
    \/ EngineProcessStart

(***************************************************************************)
(* The Exit Controller (src/core/exit_manager.py) with the exit profile    *)
(* "volume_pullback" (src/core/trader_exit_profiles.py).  Prices are in    *)
(* ticks, quantities in hundredths of a contract.                          *)
(***************************************************************************)
\* PROFILES["volume_pullback"]: tp1_r = 1.0, tp2_r = 2.0, trail_atr_mult =
\* 2.0, sl_atr_mult = 1.4 (in tenths), tp1_pct = tp2_pct = 0.33 (in hundredths)
tp1_r == 1
tp2_r == 2
trail_atr_mult == 2
sl_atr_mult_x10 == 14
tp1_pct_x100 == 33
tp2_pct_x100 == 33

MaxCloseAlls == 2

ExitEntries == {40}
ExitQtys == {100, 200}
RegisterAtrs == {5, 10}
Atrs == {0, 5, 10}
Emas == {30, 40, 50}
ExitPrices == {12, 26, 33, 40, 47, 54, 68}

NoPs == [side |-> "none"]

exitUnchanged == UNCHANGED <<ipcVars, orderLog, timedVars, daemonVars, loopVars,
                             supVars, safeVars, backoffVars, laterVars>>

Max(a, b) == IF a > b THEN a ELSE b

\* Python truth value of Optional[float]: None and 0.0 are false.
Truthy(price) == price # 0

TrailFollowsReference(side, trail_price, ema_val, trail_buffer) ==
    IF side = "long" THEN ema_val - trail_buffer ELSE ema_val + trail_buffer

\* max(ps.trail_price or -math.inf, ema_val - trail_buffer) for a long,
\* min(ps.trail_price or math.inf, ema_val + trail_buffer) for a short
new_trail_price(side, trail_price, ema_val, trail_buffer) ==
    IF side = "long"
    THEN IF Truthy(trail_price)
         THEN Max(trail_price, ema_val - trail_buffer)
         ELSE ema_val - trail_buffer
    ELSE IF Truthy(trail_price)
         THEN Min(trail_price, ema_val + trail_buffer)
         ELSE ema_val + trail_buffer

\* current_price has crossed target in the position's favour
Crossed(side, current_price, target) ==
    \/ side = "long" /\ current_price >= target
    \/ side = "short" /\ current_price <= target

Tp1DueAgain(p, current_price) == Crossed(p.side, current_price, p.tp1_price)

\* evaluate_and_act: the condition of the TP1 branch
Tp1Due(p, current_price) ==
    ~p.realized_tp1 /\ Crossed(p.side, current_price, p.tp1_price)

\* evaluate_and_act: the condition of the TP2 branch
Tp2Due(p, current_price) ==
    p.realized_tp1 /\ ~p.realized_tp2 /\ Crossed(p.side, current_price, p.tp2_price)

\* evaluate_and_act: the trailing stop is hit
TrailHit(side, current_price, trail) ==
    \/ side = "long" /\ current_price <= trail
    \/ side = "short" /\ current_price >= trail

\* evaluate_and_act: the backup stop-loss test
StopHit(p, current_price) ==
    \/ p.side = "long" /\ current_price <= p.sl_price
    \/ p.side = "short" /\ current_price >= p.sl_price

\* _execute_tp: qty_to_close
qty_to_close(p, portion) ==
    IF portion = "tp1" THEN (p.qty * tp1_pct_x100) \div 100
    ELSE (p.qty * tp2_pct_x100) \div 100

\* _place_reduce_order: the result's "action"
_place_reduce_order(accepted) == IF accepted THEN "order_sent" ELSE "order_failed"

\* register_position: stop, targets and the trail's starting price.
register_position(side, entry_price, qty, atr_val, ema_base) ==
    LET risk_per_unit == (sl_atr_mult_x10 * atr_val) \div 10
        sign == IF side = "long" THEN 1 ELSE -1
    IN  [side |-> side, entry_price |-> entry_price, qty |-> qty,
         realized_tp1 |-> FALSE, realized_tp2 |-> FALSE,
         sl_price |-> entry_price - sign * risk_per_unit,
         tp1_price |-> entry_price + tp1_r * risk_per_unit * sign,
         tp2_price |-> entry_price + tp2_r * risk_per_unit * sign,
         trail_price |-> IF side = "long" THEN Min(ema_base, entry_price)
                         ELSE Max(ema_base, entry_price)]

ExitRegister ==
    /\ ps = NoPs
    /\ \E side \in Sides, entry_price \in ExitEntries, qty \in ExitQtys,
          atr_val \in RegisterAtrs, ema_base \in Emas :
         ps' = register_position(side, entry_price, qty, atr_val, ema_base)
    /\ exitLog' = <<>>
    /\ exitResult' = "registered"
    /\ acceptedStages' = {}
    /\ sentQty' = 0
    /\ closeAllSent' = 0
    /\ exitUnchanged

\* _execute_tp: the flag is set, then the reduce-only order is placed.
_execute_tp(portion, accepted) ==
    /\ ps' = IF portion = "tp1" THEN [ps EXCEPT !.realized_tp1 = TRUE]
             ELSE [ps EXCEPT !.realized_tp2 = TRUE]
    /\ exitLog' = Append(exitLog, portion)
    /\ exitResult' = IF qty_to_close(ps, portion) <= 0 THEN "noop"
                     ELSE _place_reduce_order(accepted)
    /\ IF qty_to_close(ps, portion) > 0 /\ accepted
       THEN /\ acceptedStages' = acceptedStages \cup {portion}
            /\ sentQty' = sentQty + qty_to_close(ps, portion)
       ELSE UNCHANGED <<acceptedStages, sentQty>>
    /\ UNCHANGED closeAllSent

\* _close_all: remaining_qty, the quantity less the shares of the stages
\* flagged as realized
remaining_qty(p) ==
    (p.qty * (100 - (IF p.realized_tp1 THEN tp1_pct_x100 ELSE 0)
                  - (IF p.realized_tp2 THEN tp2_pct_x100 ELSE 0))) \div 100

\* _close_all: a reduce order for the remaining quantity; the state is left
\* as it is.
_close_all(accepted) ==
    /\ exitResult' = _place_reduce_order(accepted)
    /\ IF accepted
       THEN /\ sentQty' = sentQty + remaining_qty(ps)
            /\ closeAllSent' = closeAllSent + 1
       ELSE UNCHANGED <<sentQty, closeAllSent>>
    /\ UNCHANGED <<exitLog, acceptedStages>>

evaluate_and_act ==
    /\ ps # NoPs
    /\ closeAllSent < MaxCloseAlls
    /\ \E current_price \in ExitPrices, atr_val \in Atrs, ema_val \in Emas,
          accepted \in BOOLEAN :
         LET trail_buffer == trail_atr_mult * atr_val
             trail == new_trail_price(ps.side, ps.trail_price, ema_val, trail_buffer)
         IN  IF Tp1Due(ps, current_price)
             THEN _execute_tp("tp1", accepted)
             ELSE IF Tp2Due(ps, current_price)
             THEN _execute_tp("tp2", accepted)
             ELSE IF TrailHit(ps.side, current_price, trail)
             THEN _close_all(accepted) /\ UNCHANGED ps
             ELSE IF StopHit(ps, current_price)
             THEN /\ ps' = [ps EXCEPT !.trail_price = trail]
                  /\ _close_all(accepted)
             ELSE /\ ps' = [ps EXCEPT !.trail_price = trail]
                  /\ exitResult' = "hold"
                  /\ UNCHANGED <<exitLog, acceptedStages, sentQty,
                                 closeAllSent>>
    /\ exitUnchanged

\* The position is gone (closed by an order of the controller or by the
\* stop order resting at the exchange) and the caller drops its state.
ExitForget ==
    /\ ps # NoPs
    /\ ps' = NoPs
    /\ exitResult' = "dropped"
    /\ exitLog' = <<>>
    /\ acceptedStages' = {}
    /\ sentQty' = 0
    /\ closeAllSent' = 0
    /\ exitUnchanged

ExitIdle ==
    /\ ps = NoPs /\ exitLog = <<>> /\ exitResult = "none"
    /\ acceptedStages = {} /\ sentQty = 0 /\ closeAllSent = 0

NextExit == ExitRegister \/ evaluate_and_act \/ ExitForget

(***************************************************************************)
(* The supervisor (src/main_unified.py): run_all after both children were  *)
(* started, and its monitoring task.  Time is in ticks of 5 seconds.       *)
(***************************************************************************)
max_consecutive_warnings == 3
GraceTicks == 2
MaxChecks == 5
MaxSupTime == 5

Children == {"engine", "listener"}

supUnchanged == UNCHANGED <<ipcVars, orderLog, timedVars, daemonVars, loopVars,
                            exitVars, safeVars, backoffVars, laterVars>>

\* process.returncode is None
Alive(c) == childState[c] # "exited"

WarningsNeverReset(healthy, warnings) == IF healthy THEN warnings ELSE warnings + 1

\* monitor_system_periodically: the counter after one health check
WarningsAfter(healthy, warnings) == IF healthy THEN 0 ELSE warnings + 1

\* process.terminate(): SIGTERM is delivered to the children in targets that
\* are still alive; a child handles it and exits later, or ignores it.
Terminated(targets, ignoring) ==
    [c \in Children |->
        IF c \in targets /\ childState[c] = "running"
        THEN IF c \in ignoring THEN "ignoring" ELSE "terminating"
        ELSE childState[c]]

TermStamped(targets) ==
    [c \in Children |-> IF c \in targets /\ Alive(c) /\ termAt[c] = -1
                        THEN supNow ELSE termAt[c]]

\* One pass of the monitor's loop: sleep(30), check_system_health(), count,
\* and at max_consecutive_warnings terminate both children and break.
MonitorCheck ==
    /\ monitorPc = "sleeping"
    /\ supPc = "gather"
    /\ Len(checks) < MaxChecks
    /\ \E healthy \in BOOLEAN, ignoring \in SUBSET Children :
         LET warnings == WarningsAfter(healthy, consecutive_warnings)
         IN  /\ consecutive_warnings' = warnings
             /\ checks' = Append(checks, healthy)
             /\ IF warnings >= max_consecutive_warnings
                THEN /\ childState' = Terminated(Children, ignoring)
                     /\ termAt' = TermStamped(Children)
                     /\ monitorPc' = "triggered"
                ELSE /\ ignoring = {}
                     /\ UNCHANGED <<childState, termAt, monitorPc>>
    /\ UNCHANGED <<supPc, waitStart, killed, supNow>>
    /\ supUnchanged

\* A child exits: by itself while running, or in response to SIGTERM.
ChildExit ==
    /\ \E c \in Children :
         /\ childState[c] \in {"running", "terminating"}
         /\ childState' = [childState EXCEPT ![c] = "exited"]
    /\ UNCHANGED <<supPc, monitorPc, consecutive_warnings, checks, termAt,
                   waitStart, killed, supNow>>
    /\ supUnchanged

\* asyncio.gather(process_engine.wait(), process_listener.wait(),
\* monitoring_task) completes: the finally block starts.
GatherDone ==
    /\ supPc = "gather"
    /\ \A c \in Children : ~Alive(c)
    /\ monitorPc = "triggered"
    /\ supPc' = "fin_engine"
    /\ UNCHANGED <<monitorPc, consecutive_warnings, checks, childState, termAt,
                   waitStart, killed, supNow>>
    /\ supUnchanged

\* run_all is cancelled (Ctrl-C) while in gather; the monitoring task is
\* cancelled with it.
SupCancelled ==
    /\ supPc = "gather"
    /\ supPc' = "fin_engine"
    /\ monitorPc' = IF monitorPc = "sleeping" THEN "cancelled" ELSE monitorPc
    /\ UNCHANGED <<consecutive_warnings, checks, childState, termAt, waitStart,
                   killed, supNow>>
    /\ supUnchanged

FinChild == IF supPc \in {"fin_engine", "wait_engine"} THEN "engine" ELSE "listener"

AfterChild == IF FinChild = "engine" THEN "fin_listener" ELSE "exited"

\* finally: if process and process.returncode is None: process.terminate();
\* await asyncio.wait_for(process.wait(), timeout=10.0)
FinTerminate ==
    /\ supPc \in {"fin_engine", "fin_listener"}
    /\ IF Alive(FinChild)
       THEN \E ignoring \in SUBSET {FinChild} :
              /\ childState' = Terminated({FinChild}, ignoring)
              /\ termAt' = TermStamped({FinChild})
              /\ waitStart' = supNow
              /\ supPc' = IF FinChild = "engine" THEN "wait_engine"
                          ELSE "wait_listener"
       ELSE /\ supPc' = AfterChild
            /\ UNCHANGED <<childState, termAt, waitStart>>
    /\ UNCHANGED <<monitorPc, consecutive_warnings, checks, killed, supNow>>
    /\ supUnchanged

\* wait_for returns: the child has exited.
FinWaitDone ==
    /\ supPc \in {"wait_engine", "wait_listener"}
    /\ ~Alive(FinChild)
    /\ supPc' = AfterChild
    /\ UNCHANGED <<monitorPc, consecutive_warnings, checks, childState, termAt,
                   waitStart, killed, supNow>>
    /\ supUnchanged

\* except asyncio.TimeoutError: process.kill(); await process.wait()
FinKill ==
    /\ supPc \in {"wait_engine", "wait_listener"}
    /\ Alive(FinChild)
    /\ supNow - waitStart >= GraceTicks
    /\ childState' = [childState EXCEPT ![FinChild] = "exited"]
    /\ killed' = killed \cup {FinChild}
    /\ supPc' = AfterChild
    /\ UNCHANGED <<monitorPc, consecutive_warnings, checks, termAt, waitStart,
                   supNow>>
    /\ supUnchanged

\* Five seconds pass; a wait_for whose timeout has expired acts first.
SupTick ==
    /\ supNow < MaxSupTime
    /\ supPc # "exited"
    /\ ~(supPc \in {"wait_engine", "wait_listener"}
         /\ supNow - waitStart >= GraceTicks)
    /\ supNow' = supNow + 1
    /\ UNCHANGED <<supPc, monitorPc, consecutive_warnings, checks, childState,
                   termAt, waitStart, killed>>
    /\ supUnchanged

SupIdle ==
    /\ supPc = "gather"
    /\ monitorPc = "sleeping"
    /\ consecutive_warnings = 0
    /\ checks = <<>>
    /\ childState = [c \in Children |-> "running"]
    /\ termAt = [c \in Children |-> -1]
    /\ waitStart = 0
    /\ killed = {}
    /\ supNow = 0

NextSupervisor ==
    \/ MonitorCheck
    \/ ChildExit
    \/ GatherDone
    \/ SupCancelled
    \/ FinTerminate
    \/ FinWaitDone
    \/ FinKill
    \/ SupTick

(***************************************************************************)
(* safe_market_order (src/core/pretrade_safety.py).  Quantities are in     *)
(* units of the smallest lot.                                              *)
(***************************************************************************)
max_retries == 3
SafeQtys == {1, 4, 7, 10}
MinQtys == {1, 3}

safeUnchanged == UNCHANGED <<ipcVars, orderLog, timedVars, daemonVars, loopVars,
                             exitVars, supVars, backoffVars, laterVars>>

\* math.floor(x / step) * step for x = num / 10
FloorToStep(num, step) == (num \div (10 * step)) * step

\* qty * 0.9 floored to the step: the quantity reduced by 10%.
ReducedTenPercent(qty, step) == FloorToStep(9 * qty, step)

QtyNotReduced(qty, minq, step) == Max(qty, minq)

\* _reduce_qty(qty, rate=0.9, min_qty, step): max(qty * rate, min_qty),
\* floored to the step, and again raised to min_qty.
_reduce_qty(qty, minq, step) ==
    Max(FloorToStep(Max(9 * qty, 10 * minq), step), minq)

\* create_order: the order, ccxt.InsufficientFunds, ccxt.NetworkError or
\* another ccxt.ExchangeError
OrderOutcomes == {"order", "insufficient", "network", "exchange"}

\* safe_market_order is called: market(symbol), q = max(qty, min_qty).
SafeCall ==
    /\ safePc \in {"idle", "returned"}
    /\ \E qty \in SafeQtys, minq \in MinQtys :
         /\ min_qty' = minq
         /\ safeQ' = Max(qty, minq)
    /\ attempt' = 0
    /\ sent' = <<>>
    /\ outcomes' = <<>>
    /\ safeResult' = "none"
    /\ safePc' = "loop"
    /\ safeUnchanged

\* One pass of `for attempt in range(max_retries + 1)`.
SafeAttempt ==
    /\ safePc = "loop"
    /\ attempt <= max_retries
    /\ \E outcome \in OrderOutcomes :
         /\ sent' = Append(sent, safeQ)
         /\ outcomes' = Append(outcomes, outcome)
         /\ CASE outcome = "order" ->
                   /\ safeResult' = "order"
                   /\ safePc' = "returned"
                   /\ UNCHANGED <<safeQ, attempt>>
              [] outcome = "insufficient" ->
                   LET reduced == _reduce_qty(safeQ, min_qty, min_qty)
                   IN  /\ safeQ' = reduced
                       /\ IF reduced <= 0 \/ (reduced = min_qty /\ attempt = max_retries)
                          THEN /\ safeResult' = "insufficient_funds_after_retries"
                               /\ safePc' = "returned"
                               /\ UNCHANGED attempt
                          ELSE /\ attempt' = attempt + 1
                               /\ UNCHANGED <<safeResult, safePc>>
              [] outcome = "network" ->
                   IF attempt = max_retries
                   THEN /\ safeResult' = "network_error_after_retries"
                        /\ safePc' = "returned"
                        /\ UNCHANGED <<safeQ, attempt>>
                   ELSE /\ attempt' = attempt + 1
                        /\ UNCHANGED <<safeQ, safeResult, safePc>>
              [] outcome = "exchange" ->
                   /\ safeResult' = "exchange_error"
                   /\ safePc' = "returned"
                   /\ UNCHANGED <<safeQ, attempt>>
    /\ UNCHANGED min_qty
    /\ safeUnchanged

\* The loop ended without a return.
SafeLoopEnd ==
    /\ safePc = "loop"
    /\ attempt > max_retries
    /\ safeResult' = "max_retries_reached"
    /\ safePc' = "returned"
    /\ UNCHANGED <<safeQ, attempt, min_qty, sent, outcomes>>
    /\ safeUnchanged

SafeIdle ==
    /\ safePc = "idle"
    /\ safeQ = 0
    /\ attempt = 0
    /\ min_qty = 1
    /\ sent = <<>>
    /\ outcomes = <<>>
    /\ safeResult = "none"

NextSafe == SafeCall \/ SafeAttempt \/ SafeLoopEnd

(***************************************************************************)
(* The error backoff of handle_symbol (src/engine/auto_exit_daemon.py)     *)
(* over the scans of one symbol, with the counter unabridged.              *)
(***************************************************************************)
ERR_BACKOFF_BASE == 2
ERR_BACKOFF_MAX == 60
MaxFailures == 7

backoffUnchanged == UNCHANGED <<ipcVars, orderLog, timedVars, daemonVars, loopVars,
                                exitVars, supVars, safeVars, laterVars>>

RECURSIVE Pow(_, _)
Pow(base, n) == IF n = 0 THEN 1 ELSE base * Pow(base, n - 1)

\* handle_symbol: the sleep before the symbol is touched
BackoffDelay(step) ==
    IF step > 0 THEN Min(Pow(ERR_BACKOFF_BASE, step), ERR_BACKOFF_MAX) ELSE 0

\* What a handling can meet: fetch_positions raising (the only call made
\* outside the helpers' own try blocks); no position; the handler running to
\* its end, with or without a network/exchange error inside fetch_ticker,
\* ensure_bracket, fire_partial_take_profit or trail_update, which catch it.
HandlingOutcomes == {"fetch_error", "no_position", "handled", "ticker_error",
                     "bracket_error", "order_error", "trail_error"}

Raised == {"fetch_error"}
Swallowed == {"ticker_error", "bracket_error", "order_error", "trail_error"}

\* handle_symbol is entered in a scan: step = backoffs.get(symbol, 0), sleep.
BackoffEnter ==
    /\ bPc = "between"
    /\ bDelay' = BackoffDelay(bStep)
    /\ bPc' = "handling"
    /\ UNCHANGED <<bStep, bErrors, bLast>>
    /\ backoffUnchanged

\* handle_symbol from fetch_positions to its end.
BackoffHandle ==
    /\ bPc = "handling"
    /\ \E outcome \in HandlingOutcomes :
         /\ outcome \in Raised \cup Swallowed => bErrors < MaxFailures
         /\ bStep' = IF outcome \in Raised THEN bStep + 1 ELSE 0
         /\ bErrors' = IF outcome \in Raised \cup Swallowed THEN bErrors + 1 ELSE 0
         /\ bLast' = outcome
    /\ bPc' = "between"
    /\ UNCHANGED bDelay
    /\ backoffUnchanged

BackoffIdle ==
    /\ bPc = "between"
    /\ bStep = 0
    /\ bDelay = 0
    /\ bErrors = 0
    /\ bLast = "none"

NextBackoff == BackoffEnter \/ BackoffHandle


(***************************************************************************)
(* The chat bot's conversations (src/notifier/bot_listener.py): the        *)
(* dispatcher's handlers in registration order, the FSM state and data of  *)
(* one chat, and what send_engine_command does with a finished flow.       *)
(***************************************************************************)
NoData == [side |-> "-", symbol |-> "-", price |-> "-", strategy_name |-> "-"]

\* Buttons of the menus (always within reach through /menu) and of the
\* symbol and strategy keyboards.
MenuButtons == {"order_buy", "order_sell", "order_tp", "order_sl",
                "engine_switch_strategy", "show_help"}
SymbolButtons == {"manual_symbol_input", "select_symbol:ETHUSDT"}
StrategyButtons == {"select_strategy:snake_ma"}

\* What the user can type.
Texts == {"/cancel", "10.5", "BTCUSDT"}

botUnchanged == UNCHANGED <<ipcVars, orderLog, timedVars, daemonVars,
                            loopVars, exitVars, supVars, safeVars,
                            backoffVars, dashVars, clientVars, rmVars,
                            envVars, cacheVars, scanVars, dispatchVars,
                            mgrVars, ledgerVars>>

\* float(message.text.strip()) succeeds with a positive value
IsAmount(text) == text = "10.5"

\* The callback-query handlers in the order of their registration, each with
\* its filter on the button's data and on the text of the clicked message.
CallbackHandlers ==
    << [name |-> "cq_show_main_menu", data |-> {"show_help"}, prompts |-> {"none", "order", "tpsl"}],
       [name |-> "start_order_process", data |-> {"order_buy", "order_sell"},
        prompts |-> {"none", "order", "tpsl"}],
       [name |-> "cq_manual_symbol_input", data |-> {"manual_symbol_input"},
        prompts |-> {"order", "tpsl"}],
       [name |-> "cq_select_symbol_for_order", data |-> {"select_symbol:ETHUSDT"},
        prompts |-> {"order", "tpsl"}],
       [name |-> "start_strategy_switch", data |-> {"engine_switch_strategy"},
        prompts |-> {"none", "order", "tpsl"}],
       [name |-> "cq_select_strategy", data |-> {"select_strategy:snake_ma"},
        prompts |-> {"none", "order", "tpsl"}],
       [name |-> "start_tpsl_process", data |-> {"order_tp", "order_sl"},
        prompts |-> {"none", "order", "tpsl"}],
       [name |-> "cq_manual_symbol_input_tpsl", data |-> {"manual_symbol_input"},
        prompts |-> {"tpsl"}],
       [name |-> "cq_select_symbol_for_tpsl", data |-> {"select_symbol:ETHUSDT"},
        prompts |-> {"tpsl"}] >>

\* The dispatcher calls the first registered handler whose filters pass.
Route(data, prompt) ==
    LET matching == {i \in 1..Len(CallbackHandlers) :
                        /\ data \in CallbackHandlers[i].data
                        /\ prompt \in CallbackHandlers[i].prompts}
        first == CHOOSE i \in matching : \A j \in matching : i <= j
    IN  CallbackHandlers[first].name

\* cm.send_command(command, params) is called without await: the coroutine
\* object is created and its body, which appends to the queue file, never
\* runs.
send_command_not_awaited(queue, record) == queue

\* send_engine_command(message, command, params)
send_engine_command(command, params) ==
    /\ dispatchLog' = <<[command |-> command, params |-> params,
                         steps |-> Append(flowSteps, "amount"),
                         afterCancel |-> cancelled]>>
    /\ botQueue' = send_command_not_awaited(botQueue,
                                            [command |-> command, params |-> params])

\* A button is clicked.
BotCallback ==
    /\ \E data \in MenuButtons
               \cup (IF symbolPrompt # "none" THEN SymbolButtons ELSE {})
               \cup (IF strategyPrompt THEN StrategyButtons ELSE {}) :
         LET handler == Route(data, symbolPrompt)
             picked == "ETHUSDT"
         IN
         CASE handler = "cq_show_main_menu" ->
                /\ fsmState' = "none"
                /\ fsmData' = NoData
                /\ symbolPrompt' = "none"
                /\ strategyPrompt' = FALSE
                /\ flowSteps' = <<>>
                /\ cancelled' = FALSE
           [] handler = "start_order_process" ->
                /\ fsmData' = [fsmData EXCEPT !.side =
                                  IF data = "order_buy" THEN "buy" ELSE "sell"]
                /\ symbolPrompt' = "order"
                /\ flowSteps' = <<"side">>
                /\ cancelled' = FALSE
                /\ UNCHANGED <<fsmState, strategyPrompt>>
           [] handler = "start_tpsl_process" ->
                /\ fsmData' = [fsmData EXCEPT !.side =
                                  IF data = "order_tp" THEN "tp" ELSE "sl"]
                /\ symbolPrompt' = "tpsl"
                /\ flowSteps' = <<"side">>
                /\ cancelled' = FALSE
                /\ UNCHANGED <<fsmState, strategyPrompt>>
           [] handler = "cq_manual_symbol_input" ->
                /\ fsmState' = "OrderForm.symbol"
                /\ symbolPrompt' = "none"
                /\ UNCHANGED <<fsmData, strategyPrompt, flowSteps, cancelled>>
           [] handler = "cq_manual_symbol_input_tpsl" ->
                /\ fsmState' = "TPSLForm.symbol"
                /\ symbolPrompt' = "none"
                /\ UNCHANGED <<fsmData, strategyPrompt, flowSteps, cancelled>>
           [] handler = "cq_select_symbol_for_order" ->
                /\ fsmData' = [fsmData EXCEPT !.symbol = picked]
                /\ fsmState' = "OrderForm.amount"
                /\ symbolPrompt' = "none"
                /\ flowSteps' = Append(flowSteps, "symbol")
                /\ UNCHANGED <<strategyPrompt, cancelled>>
           [] handler = "cq_select_symbol_for_tpsl" ->
                /\ fsmData' = [fsmData EXCEPT !.symbol = picked]
                /\ fsmState' = "TPSLForm.price"
                /\ symbolPrompt' = "none"
                /\ flowSteps' = Append(flowSteps, "symbol")
                /\ UNCHANGED <<strategyPrompt, cancelled>>
           [] handler = "start_strategy_switch" ->
                /\ strategyPrompt' = TRUE
                /\ symbolPrompt' = "none"
                /\ flowSteps' = <<>>
                /\ cancelled' = FALSE
                /\ UNCHANGED <<fsmState, fsmData>>
           [] handler = "cq_select_strategy" ->
                /\ fsmData' = [fsmData EXCEPT !.strategy_name = "snake_ma"]
                /\ fsmState' = "StrategyForm.model_path"
                /\ strategyPrompt' = FALSE
                /\ flowSteps' = <<"strategy_name">>
                /\ UNCHANGED <<symbolPrompt, cancelled>>
    /\ UNCHANGED <<dispatchLog, botQueue>>
    /\ botUnchanged

\* A flow is in progress: a step of it has been taken and it has neither
\* finished nor been left through the menu.
InProgress ==
    fsmState # "none" \/ fsmData # NoData \/ symbolPrompt # "none" \/ strategyPrompt

\* cancel_handler: registered before every state handler.
cancel_handler ==
    /\ cancelled' = (cancelled \/ InProgress)
    /\ IF fsmState = "none"
       THEN UNCHANGED <<fsmState, fsmData, flowSteps>>
       ELSE /\ fsmState' = "none"
            /\ fsmData' = NoData
            /\ flowSteps' = <<>>
    /\ UNCHANGED <<symbolPrompt, strategyPrompt, dispatchLog, botQueue>>

\* A text message arrives: cancel_handler, else the handler of the FSM state.
BotMessage ==
    /\ \E text \in Texts :
         IF text = "/cancel" THEN cancel_handler
         ELSE
         CASE fsmState = "OrderForm.symbol" ->
                \* process_symbol
                /\ fsmData' = [fsmData EXCEPT !.symbol = text]
                /\ fsmState' = "OrderForm.amount"
                /\ flowSteps' = Append(flowSteps, "symbol")
                /\ UNCHANGED <<symbolPrompt, strategyPrompt, cancelled, dispatchLog,
                               botQueue>>
           [] fsmState = "OrderForm.amount" ->
                \* process_amount
                IF IsAmount(text)
                THEN /\ send_engine_command(
                            "order_" \o fsmData.side,
                            [symbol |-> fsmData.symbol, trigger_price |-> "-",
                             amount |-> text])
                     /\ fsmState' = "none"
                     /\ fsmData' = NoData
                     /\ flowSteps' = <<>>
                     /\ UNCHANGED <<symbolPrompt, strategyPrompt, cancelled>>
                ELSE UNCHANGED <<fsmState, fsmData, flowSteps, symbolPrompt,
                                 strategyPrompt, cancelled, dispatchLog, botQueue>>
           [] fsmState = "TPSLForm.symbol" ->
                \* process_tpsl_symbol
                /\ fsmData' = [fsmData EXCEPT !.symbol = text]
                /\ fsmState' = "TPSLForm.price"
                /\ flowSteps' = Append(flowSteps, "symbol")
                /\ UNCHANGED <<symbolPrompt, strategyPrompt, cancelled, dispatchLog,
                               botQueue>>
           [] fsmState = "TPSLForm.price" ->
                \* process_tpsl_price
                IF IsAmount(text)
                THEN /\ fsmData' = [fsmData EXCEPT !.price = text]
                     /\ fsmState' = "TPSLForm.amount"
                     /\ flowSteps' = Append(flowSteps, "price")
                     /\ UNCHANGED <<symbolPrompt, strategyPrompt, cancelled,
                                    dispatchLog, botQueue>>
                ELSE UNCHANGED <<fsmState, fsmData, flowSteps, symbolPrompt,
                                 strategyPrompt, cancelled, dispatchLog, botQueue>>
           [] fsmState = "TPSLForm.amount" ->
                \* process_tpsl_amount
                IF IsAmount(text)
                THEN /\ send_engine_command(
                            "order_" \o fsmData.side,
                            [symbol |-> fsmData.symbol,
                             trigger_price |-> fsmData.price, amount |-> text])
                     /\ fsmState' = "none"
                     /\ fsmData' = NoData
                     /\ flowSteps' = <<>>
                     /\ UNCHANGED <<symbolPrompt, strategyPrompt, cancelled>>
                ELSE UNCHANGED <<fsmState, fsmData, flowSteps, symbolPrompt,
                                 strategyPrompt, cancelled, dispatchLog, botQueue>>
           [] fsmState = "StrategyForm.model_path" ->
                \* process_model_path
                     /\ send_engine_command(
                            "engine_switch_strategy",
                            [strategy_name |-> fsmData.strategy_name,
                             model_path |-> text])
                     /\ fsmState' = "none"
                     /\ fsmData' = NoData
                     /\ flowSteps' = <<>>
                     /\ UNCHANGED <<symbolPrompt, strategyPrompt, cancelled>>
           [] OTHER ->
                \* no handler takes a plain text outside a conversation
                UNCHANGED <<fsmState, fsmData, flowSteps, symbolPrompt,
                            strategyPrompt, cancelled, dispatchLog, botQueue>>
    /\ botUnchanged

BotIdle ==
    /\ fsmState = "none"
    /\ fsmData = NoData
    /\ symbolPrompt = "none"
    /\ strategyPrompt = FALSE
    /\ flowSteps = <<>>
    /\ cancelled = FALSE
    /\ dispatchLog = <<>>
    /\ botQueue = <<>>

NextBot == BotCallback \/ BotMessage


(***************************************************************************)
(* The dashboard's in-process engine bridge (src/dashboard/api/server.py)  *)
(* and the runtime manager it drives (src/config/runtime_manager.py).      *)
(* Every request runs to its response before the next one is taken: the    *)
(* bridge holds its lock over start, stop and restart, and switch_strategy *)
(* checks and acts without a suspension in between.                        *)
(***************************************************************************)
DashStrategies == {"snake_ma", "ppo", "volume_pullback"}
DashSymbols == {"BTCUSDT", "ETHUSDT", "SOLUSDT"}

NoRequest == [action |-> "none", status |-> 0, wasRunning |-> FALSE]

dashUnchanged == UNCHANGED <<ipcVars, orderLog, timedVars, daemonVars,
                             loopVars, exitVars, supVars, safeVars,
                             backoffVars, botVars, clientVars, rmVars,
                             envVars, cacheVars, scanVars, dispatchVars,
                             mgrVars, ledgerVars>>

\* self.rt and self.rt.is_running()
BridgeRunning == rt = "manager" /\ is_running_flag

Response(action, status) ==
    [action |-> action, status |-> status, wasRunning |-> BridgeRunning]

\* try: from src.engine.runtime_manager import RuntimeManager
\* except ImportError: RuntimeManager = None
DashImport ==
    /\ rtModule = "unknown"
    /\ rtModule' \in {"present", "absent"}
    /\ UNCHANGED <<rt, is_running_flag, rtStrategy, rtSymbol, lastRequest>>
    /\ dashUnchanged

\* RuntimeManager() followed by RuntimeManager.start(strategy, symbol)
ManagerStarted(strategy, symbol) ==
    /\ rt' = "manager"
    /\ is_running_flag' = TRUE
    /\ rtStrategy' = strategy
    /\ rtSymbol' = symbol

\* POST /api/run -> RuntimeBridge.start
ApiRun ==
    /\ rtModule # "unknown"
    /\ \E strategy \in DashStrategies, symbol \in DashSymbols :
          IF rtModule = "absent"
          THEN /\ lastRequest' = Response("run", 501)
               /\ UNCHANGED <<rt, is_running_flag, rtStrategy, rtSymbol>>
          ELSE IF BridgeRunning
          THEN /\ lastRequest' = Response("run", 409)
               /\ UNCHANGED <<rt, is_running_flag, rtStrategy, rtSymbol>>
          ELSE /\ ManagerStarted(strategy, symbol)
               /\ lastRequest' = Response("run", 200)
    /\ UNCHANGED rtModule
    /\ dashUnchanged

\* POST /api/stop -> RuntimeBridge.stop: a bridge without a running engine
\* does nothing, and the route answers {"ok": True} either way.
ApiStop ==
    /\ rtModule # "unknown"
    /\ IF BridgeRunning
       THEN /\ rt' = "None"
            /\ is_running_flag' = FALSE
            /\ UNCHANGED <<rtStrategy, rtSymbol>>
       ELSE UNCHANGED <<rt, is_running_flag, rtStrategy, rtSymbol>>
    /\ lastRequest' = Response("stop", 200)
    /\ UNCHANGED rtModule
    /\ dashUnchanged

\* POST /api/restart -> RuntimeBridge.restart
ApiRestart ==
    /\ rtModule # "unknown"
    /\ \E strategy \in DashStrategies, symbol \in DashSymbols :
          IF rtModule = "absent"
          THEN /\ lastRequest' = Response("restart", 501)
               /\ UNCHANGED <<rt, is_running_flag, rtStrategy, rtSymbol>>
          ELSE /\ ManagerStarted(strategy, symbol)
               /\ lastRequest' = Response("restart", 200)
    /\ UNCHANGED rtModule
    /\ dashUnchanged

\* POST /api/switch_strategy -> RuntimeBridge.switch_strategy
ApiSwitchStrategy ==
    /\ rtModule # "unknown"
    /\ \E strategy \in DashStrategies :
          IF ~BridgeRunning
          THEN /\ lastRequest' = Response("switch_strategy", 409)
               /\ UNCHANGED rtStrategy
          ELSE /\ rtStrategy' = strategy
               /\ lastRequest' = Response("switch_strategy", 200)
    /\ UNCHANGED <<rtModule, rt, is_running_flag, rtSymbol>>
    /\ dashUnchanged

\* _engine_loop: without a strategy signal function the loop gives up and
\* lowers is_running_flag itself.
EngineLoopGivesUp ==
    /\ rt = "manager" /\ is_running_flag
    /\ is_running_flag' = FALSE
    /\ UNCHANGED <<rtModule, rt, rtStrategy, rtSymbol, lastRequest>>
    /\ dashUnchanged

DashIdle ==
    /\ rtModule = "unknown"
    /\ rt = "None"
    /\ is_running_flag = FALSE
    /\ rtStrategy = "-"
    /\ rtSymbol = "-"
    /\ lastRequest = NoRequest

NextDash ==
    \/ DashImport
    \/ ApiRun
    \/ ApiStop
    \/ ApiRestart
    \/ ApiSwitchStrategy
    \/ EngineLoopGivesUp


(***************************************************************************)
(* The exchange client singleton (src/core/bybit_router.py).  The callers  *)
(* are coroutines of one event loop: a coroutine runs without interruption *)
(* from one await that suspends to the next, so one action covers the code *)
(* between two suspensions.  _client_lock wakes its waiters in the order   *)
(* of their arrival.                                                       *)
(***************************************************************************)
GetCallers == {"a", "b", "c"}
MaxCloses == 2
MaxClients == 4

clientUnchanged == UNCHANGED <<ipcVars, orderLog, timedVars, daemonVars,
                               loopVars, exitVars, supVars, safeVars,
                               backoffVars, botVars, dashVars, rmVars,
                               envVars, cacheVars, scanVars, dispatchVars,
                               mgrVars, ledgerVars>>

\* async with _client_lock: leaving the block wakes the first waiter
ReleaseLock ==
    IF lockWaiters = <<>>
    THEN lockHolder' = "none" /\ UNCHANGED lockWaiters
    ELSE lockHolder' = Head(lockWaiters) /\ lockWaiters' = Tail(lockWaiters)

SecondCheckSkipped(instance) == FALSE

\* the check repeated once the lock is held: _client_instance is not None
SecondCheck(instance) == instance # 0

Returns(c, how) ==
    /\ callPc' = [callPc EXCEPT ![c] = how]
    /\ received' = [received EXCEPT ![c] = client_instance]
    /\ receivedEpoch' = [receivedEpoch EXCEPT ![c] = closes]
    /\ gotClosed' = [gotClosed EXCEPT ![c] = client_instance \in closedOnes]

\* get_bybit_client from the acquisition of the lock to the first
\* suspension: the repeated check, the configuration and the API keys, the
\* construction of the client and the call of fetch_time.
UnderLock(c) ==
    IF SecondCheck(client_instance)
    THEN /\ Returns(c, "returned_rechecked")
         /\ ReleaseLock
    ELSE \E keys \in BOOLEAN :
            IF keys
            THEN /\ callPc' = [callPc EXCEPT ![c] = "fetch_time"]
                 /\ UNCHANGED <<received, receivedEpoch, gotClosed, lockWaiters>>
                 /\ lockHolder' = c
            ELSE /\ callPc' = [callPc EXCEPT ![c] = "raised"]
                 /\ UNCHANGED <<received, receivedEpoch, gotClosed>>
                 /\ ReleaseLock

\* get_bybit_client is called: the fast path, or the lock
GetCall(c) ==
    /\ callPc[c] = "idle"
    /\ made < MaxClients
    /\ IF client_instance # 0
       THEN /\ Returns(c, "returned_fast")
            /\ UNCHANGED <<lockHolder, lockWaiters>>
       ELSE IF lockHolder = "none"
       THEN UnderLock(c)
       ELSE /\ callPc' = [callPc EXCEPT ![c] = "waiting"]
            /\ lockWaiters' = Append(lockWaiters, c)
            /\ UNCHANGED <<received, receivedEpoch, gotClosed, lockHolder>>
    /\ UNCHANGED <<client_instance, made, connected, closePc, closes, closedOnes>>
    /\ clientUnchanged

\* a waiter obtains the lock
GetWoken(c) ==
    /\ callPc[c] = "waiting"
    /\ lockHolder = c
    /\ UnderLock(c)
    /\ UNCHANGED <<client_instance, made, connected, closePc, closes, closedOnes>>
    /\ clientUnchanged

\* await client.fetch_time() returns or raises
FetchTimeDone(c) ==
    /\ callPc[c] = "fetch_time"
    /\ \E ok \in BOOLEAN :
          IF ok
          THEN /\ client_instance' = made + 1
               /\ made' = made + 1
               /\ connected' = connected + 1
               /\ callPc' = [callPc EXCEPT ![c] = "returned_built"]
               /\ received' = [received EXCEPT ![c] = made + 1]
               /\ receivedEpoch' = [receivedEpoch EXCEPT ![c] = closes]
          ELSE /\ callPc' = [callPc EXCEPT ![c] = "raised"]
               /\ UNCHANGED <<client_instance, made, connected, received,
                              receivedEpoch>>
    /\ ReleaseLock
    /\ UNCHANGED <<closePc, closes, closedOnes, gotClosed>>
    /\ clientUnchanged

\* the caller is done with the call and may call again
GetForget(c) ==
    /\ callPc[c] \in {"returned_fast", "returned_rechecked", "returned_built",
                      "raised"}
    /\ callPc' = [callPc EXCEPT ![c] = "idle"]
    /\ received' = [received EXCEPT ![c] = 0]
    /\ receivedEpoch' = [receivedEpoch EXCEPT ![c] = 0]
    /\ gotClosed' = [gotClosed EXCEPT ![c] = FALSE]
    /\ UNCHANGED <<client_instance, made, connected, lockHolder, lockWaiters,
                   closePc, closes, closedOnes>>
    /\ clientUnchanged

\* close_bybit_client is called while an instance exists
CloseCall ==
    /\ closePc = "idle"
    /\ closes < MaxCloses
    /\ client_instance # 0
    /\ IF lockHolder = "none"
       THEN /\ lockHolder' = "closer"
            /\ closePc' = "closing"
            /\ closedOnes' = closedOnes \cup {client_instance}
            /\ UNCHANGED lockWaiters
       ELSE /\ lockWaiters' = Append(lockWaiters, "closer")
            /\ closePc' = "waiting"
            /\ UNCHANGED <<lockHolder, closedOnes>>
    /\ UNCHANGED <<client_instance, made, connected, callPc, received,
                   receivedEpoch, gotClosed, closes>>
    /\ clientUnchanged

\* close_bybit_client obtains the lock and checks again
CloseWoken ==
    /\ closePc = "waiting"
    /\ lockHolder = "closer"
    /\ IF client_instance # 0
       THEN /\ closePc' = "closing"
            /\ closedOnes' = closedOnes \cup {client_instance}
            /\ UNCHANGED <<lockHolder, lockWaiters>>
       ELSE /\ closePc' = "idle"
            /\ ReleaseLock
            /\ UNCHANGED closedOnes
    /\ UNCHANGED <<client_instance, made, connected, callPc, received,
                   receivedEpoch, gotClosed, closes>>
    /\ clientUnchanged

\* await _client_instance.close() returns; _client_instance = None
CloseDone ==
    /\ closePc = "closing"
    /\ client_instance' = 0
    /\ connected' = 0
    /\ closes' = closes + 1
    /\ closePc' = "idle"
    /\ ReleaseLock
    /\ UNCHANGED <<made, callPc, received, receivedEpoch, gotClosed, closedOnes>>
    /\ clientUnchanged

\* get_ohlcv_data's finally: the caller closes the client it was handed,
\* await client.close(); _client_instance is left as it is.
RunnerClose(c) ==
    /\ callPc[c] \in {"returned_fast", "returned_rechecked", "returned_built"}
    /\ received[c] \notin closedOnes
    /\ closedOnes' = closedOnes \cup {received[c]}
    /\ connected' = IF received[c] = client_instance THEN 0 ELSE connected
    /\ UNCHANGED <<client_instance, made, lockHolder, lockWaiters, callPc,
                   received, receivedEpoch, gotClosed, closePc, closes>>
    /\ clientUnchanged

ClientIdle ==
    /\ client_instance = 0
    /\ made = 0
    /\ connected = 0
    /\ lockHolder = "none"
    /\ lockWaiters = <<>>
    /\ callPc = [c \in GetCallers |-> "idle"]
    /\ received = [c \in GetCallers |-> 0]
    /\ receivedEpoch = [c \in GetCallers |-> 0]
    /\ closePc = "idle"
    /\ closes = 0
    /\ closedOnes = {}
    /\ gotClosed = [c \in GetCallers |-> FALSE]

NextClient ==
    \/ \E c \in GetCallers : GetCall(c)
    \/ \E c \in GetCallers : GetWoken(c)
    \/ \E c \in GetCallers : FetchTimeDone(c)
    \/ \E c \in GetCallers : GetForget(c)
    \/ \E c \in GetCallers : RunnerClose(c)
    \/ CloseCall
    \/ CloseWoken
    \/ CloseDone


(***************************************************************************)
(* The task manager (src/core/smart_resource_manager.py): the process-wide *)
(* SmartResourceManager of get_resource_manager, its task queue and its    *)
(* monitoring loop.  CPU and memory are sampled in percent.                *)
(***************************************************************************)
min_workers == 1
max_workers_cap == 4
cpu_threshold == 85
memory_threshold == 85
idle_cpu == 30
MaxInFlight == 5

CoreCounts == {1, 2, 4, 8}
CpuSamples == {20, 60, 90}
MemorySamples == {50, 90}
Priorities == {1, 5}

rmUnchanged == UNCHANGED <<ipcVars, orderLog, timedVars, daemonVars,
                           loopVars, exitVars, supVars, safeVars,
                           backoffVars, botVars, dashVars, clientVars,
                           envVars, cacheVars, scanVars, dispatchVars,
                           mgrVars, ledgerVars>>

\* list(self.metrics_history)[-3:]
LastThree(history) ==
    IF Len(history) <= 3 THEN history
    ELSE SubSeq(history, Len(history) - 2, Len(history))

SumOf(history, field) ==
    LET RECURSIVE upTo(_)
        upTo(i) == IF i = 0 THEN 0 ELSE upTo(i - 1) + history[i][field]
    IN  upTo(Len(history))

\* submit_task: the task is inserted before the first queued task of a
\* larger priority number, else appended
Inserted(queue, priority) ==
    LET later == {i \in 1..Len(queue) : priority < queue[i]}
    IN  IF later = {} THEN Append(queue, priority)
        ELSE LET i == CHOOSE k \in later : \A j \in later : k <= j
             IN  SubSeq(queue, 1, i - 1) \o <<priority>>
                   \o SubSeq(queue, i, Len(queue))

\* _adjust_workers: the worker count after a sample, from the averages of
\* the last three samples (an average a is compared as n * a)
AdjustedWorkers(recent, workers) ==
    LET n == Len(recent)
        cpu == SumOf(recent, "cpu_percent")
        memory == SumOf(recent, "memory_percent")
        queue == SumOf(recent, "queue_size")
    IN  IF n < 2 THEN workers
        ELSE IF /\ queue > 2 * n
                /\ cpu < (cpu_threshold - 10) * n
                /\ memory < (memory_threshold - 10) * n
                /\ workers < max_workers
        THEN Min(max_workers, workers + 1)
        ELSE IF /\ cpu > cpu_threshold * n \/ memory > memory_threshold * n
                /\ workers > min_workers
        THEN Max(min_workers, workers - 1)
        ELSE IF queue = 0 /\ cpu < idle_cpu * n /\ workers > min_workers
        THEN Max(min_workers, workers - 1)
        ELSE workers

\* get_resource_manager: the first call constructs the manager
GetResourceManager ==
    /\ rmPc = "none"
    /\ \E cores \in CoreCounts :
          max_workers' = Min(max_workers_cap, cores \div 2)
    /\ current_workers' = min_workers
    /\ rmPc' = "created"
    /\ UNCHANGED <<metrics_history, task_queue, inFlight, lastSample>>
    /\ rmUnchanged

\* SmartResourceManager.start
RmStart ==
    /\ rmPc \in {"created", "stopped"}
    /\ rmPc' = "running"
    /\ UNCHANGED <<max_workers, current_workers, metrics_history, task_queue,
                   inFlight, lastSample>>
    /\ rmUnchanged

\* SmartResourceManager.stop
RmStop ==
    /\ rmPc = "running"
    /\ rmPc' = "stopped"
    /\ UNCHANGED <<max_workers, current_workers, metrics_history, task_queue,
                   inFlight, lastSample>>
    /\ rmUnchanged

\* submit_task up to its suspension in run_in_executor: the task is queued
\* and _execute_next_task takes the head of the queue to the executor.
SubmitTask ==
    /\ rmPc = "running"
    /\ inFlight < MaxInFlight
    /\ \E priority \in Priorities :
          task_queue' = Tail(Inserted(task_queue, priority))
    /\ inFlight' = inFlight + 1
    /\ UNCHANGED <<rmPc, max_workers, current_workers, metrics_history,
                   lastSample>>
    /\ rmUnchanged

\* a task handed to the executor finishes
TaskDone ==
    /\ inFlight > 0
    /\ inFlight' = inFlight - 1
    /\ UNCHANGED <<rmPc, max_workers, current_workers, metrics_history,
                   task_queue, lastSample>>
    /\ rmUnchanged

\* _monitor_loop: one sample and the adjustment that follows it.
\* lastSample records the sample for the properties: the tasks submitted and
\* not finished beyond the workers there are, and the count before and after.
MonitorSample ==
    /\ rmPc = "running"
    /\ \E cpu \in CpuSamples, memory \in MemorySamples :
          LET metrics == [cpu_percent |-> cpu, memory_percent |-> memory,
                          active_workers |-> current_workers,
                          queue_size |-> Len(task_queue)]
              history == LastThree(Append(metrics_history, metrics))
              after == AdjustedWorkers(history, current_workers)
          IN  /\ metrics_history' = history
              /\ current_workers' = after
              /\ lastSample' =
                    [taken |-> TRUE,
                     waiting |-> Max(inFlight - current_workers, 0),
                     samples |-> Len(history),
                     comfortable |->
                        \A i \in 1..Len(history) :
                           /\ history[i].cpu_percent < cpu_threshold - 10
                           /\ history[i].memory_percent < memory_threshold - 10,
                     before |-> current_workers,
                     after |-> after]
    /\ UNCHANGED <<rmPc, max_workers, task_queue, inFlight>>
    /\ rmUnchanged

RmIdle ==
    /\ rmPc = "none"
    /\ max_workers = 0
    /\ current_workers = 0
    /\ metrics_history = <<>>
    /\ task_queue = <<>>
    /\ inFlight = 0
    /\ lastSample = [taken |-> FALSE, waiting |-> 0, samples |-> 0,
                     comfortable |-> FALSE, before |-> 0, after |-> 0]

NextRm ==
    \/ GetResourceManager
    \/ RmStart
    \/ RmStop
    \/ SubmitTask
    \/ TaskDone
    \/ MonitorSample


(***************************************************************************)
(* The reinforcement-learning environment (src/core/trading_env.py): the   *)
(* episode's indices and its end.  The data frame is its number of rows,   *)
(* and the equity is whether the drawdown has reached risk_dd_limit.       *)
(***************************************************************************)
EnvWindows == {1, 2}
EnvMaxSteps == {3, 9}
EnvRows == {12, 13, 14}

envUnchanged == UNCHANGED <<ipcVars, orderLog, timedVars, daemonVars,
                            loopVars, exitVars, supVars, safeVars,
                            backoffVars, botVars, dashVars, clientVars,
                            rmVars, cacheVars, scanVars, dispatchVars,
                            mgrVars, ledgerVars>>

\* np.random.randint(low, high): an integer of [low, high)
RandInt(low, high) == low .. (high - 1)

\* _reset_episode_indices: the possible first indices of an episode
StartIndices(cfg, rows) ==
    LET min_start_idx == cfg.window + 1
        max_start_idx == rows - cfg.max_steps - 2
    IN  IF cfg.random_start
        THEN RandInt(min_start_idx, Max(min_start_idx + 1, max_start_idx))
        ELSE {min_start_idx}

\* self.end_idx = min(self.N - 2, self.start_idx + self.cfg.max_steps)
EndIndex(cfg, rows, start) == Min(rows - 2, start + cfg.max_steps)

EpisodeStarts(cfg, rows) ==
    /\ \E start \in StartIndices(cfg, rows) :
          /\ start_idx' = start
          /\ end_idx' = EndIndex(cfg, rows, start)
          /\ envI' = start
    /\ stepsTaken' = 0
    /\ max_drawdown_reached' = FALSE
    /\ terminated' = FALSE
    /\ truncated' = FALSE
    /\ envPc' = "episode"

\* TradingEnv(config): the data is loaded (at least window + 10 rows) and
\* reset() is called
EnvCreate ==
    /\ envPc = "none"
    /\ \E window \in EnvWindows, max_steps \in EnvMaxSteps,
          random_start \in BOOLEAN, rows \in EnvRows :
          LET cfg == [window |-> window, max_steps |-> max_steps,
                      random_start |-> random_start]
          IN  /\ rows >= window + 10
              /\ envCfg' = cfg
              /\ envRows' = rows
              /\ EpisodeStarts(cfg, rows)
    /\ envUnchanged

\* reset()
EnvReset ==
    /\ envPc \in {"episode", "over"}
    /\ EpisodeStarts(envCfg, envRows)
    /\ UNCHANGED <<envCfg, envRows>>
    /\ envUnchanged

\* _check_termination, called by step() before self.i += 1
CheckTermination(drawdown, i, end) == <<drawdown, i >= end>>

\* step(action): the equity is updated, the end of the episode is decided,
\* and the index moves on.  An episode that is over is not stepped further.
EnvStep ==
    /\ envPc = "episode"
    /\ \E limit_reached \in BOOLEAN :
          LET drawdown == max_drawdown_reached \/ limit_reached
              result == CheckTermination(drawdown, envI, end_idx)
          IN  /\ max_drawdown_reached' = drawdown
              /\ terminated' = result[1]
              /\ truncated' = result[2]
              /\ envPc' = IF result[1] \/ result[2] THEN "over" ELSE "episode"
    /\ envI' = envI + 1
    /\ stepsTaken' = stepsTaken + 1
    /\ UNCHANGED <<envCfg, envRows, start_idx, end_idx>>
    /\ envUnchanged

EnvIdle ==
    /\ envPc = "none"
    /\ envCfg = [window |-> 0, max_steps |-> 0, random_start |-> FALSE]
    /\ envRows = 0
    /\ start_idx = 0
    /\ end_idx = 0
    /\ envI = 0
    /\ stepsTaken = 0
    /\ max_drawdown_reached = FALSE
    /\ terminated = FALSE
    /\ truncated = FALSE

NextEnv ==
    \/ EnvCreate
    \/ EnvReset
    \/ EnvStep


(***************************************************************************)
(* The backtest's candle cache (src/backtest/runner.py).  Dates are the    *)
(* numbers of Dates, two to a year; a frame is the set of its dates; a     *)
(* cache file is named by symbol, first year and a suffix, the last year   *)
(* or "full".                                                              *)
(***************************************************************************)
Dates == 1..3
NoEndDate == 0
BacktestSymbols == {"BTC/USDT"}
Upstream == {"candles", "empty", "error"}

cacheUnchanged == UNCHANGED <<ipcVars, orderLog, timedVars, daemonVars,
                              loopVars, exitVars, supVars, safeVars,
                              backoffVars, botVars, dashVars, clientVars,
                              rmVars, envVars, scanVars, dispatchVars,
                              mgrVars, ledgerVars>>

\* start_date.split('-')[0]
YearOf(date) == (date + 1) \div 2

\* pd.Timestamp.now()
LastDate == CHOOSE d \in Dates : \A e \in Dates : e <= d

\* df[(df.index >= start_dt) & (df.index <= end_dt)]
Filtered(frame, start_date, end_date) ==
    LET end_dt == IF end_date = NoEndDate THEN LastDate ELSE end_date
    IN  {d \in frame : start_date <= d /\ d <= end_dt}

\* f"{safe_symbol}_1d_{year_str}_{end_year_str}.csv"
cache_filename(symbol, start_date, end_date) ==
    [symbol |-> symbol, year |-> YearOf(start_date),
     suffix |-> <<"year", IF end_date = NoEndDate THEN YearOf(start_date)
                          ELSE YearOf(end_date)>>]

\* f"{safe_symbol}_1d_{year_str}_full.csv"
full_cache_filename(symbol, start_date) ==
    [symbol |-> symbol, year |-> YearOf(start_date),
     suffix |-> <<"full", YearOf(start_date)>>]

\* df.to_csv(path): the file is created or replaced
Written(files, name, frame) ==
    {f \in files : f.name # name} \cup {[name |-> name, frame |-> frame]}

Exists(files, name) == \E f \in files : f.name = name

Call(symbol, start_date, end_date, fetched, gotFrame, frame) ==
    [symbol |-> symbol, start_date |-> start_date, end_date |-> end_date,
     fetched |-> fetched, gotFrame |-> gotFrame, frame |-> frame]

NoCall == Call("-", 0, 0, FALSE, FALSE, {})

\* get_ohlcv_data(symbol, start_date, end_date)
GetOhlcvData ==
    \E symbol \in BacktestSymbols, start_date \in Dates,
       end_date \in Dates \cup {NoEndDate}, upstream \in Upstream :
       /\ end_date = NoEndDate \/ start_date <= end_date
       /\ LET name == cache_filename(symbol, start_date, end_date)
          IN  IF Exists(cacheFiles, name)
              THEN LET file == CHOOSE f \in cacheFiles : f.name = name
                       frame == Filtered(file.frame, start_date, end_date)
                   IN  /\ lastCall' = Call(symbol, start_date, end_date,
                                           FALSE, TRUE, frame)
                       /\ UNCHANGED cacheFiles
              ELSE IF upstream # "candles"
              THEN /\ lastCall' = Call(symbol, start_date, end_date,
                                       TRUE, FALSE, {})
                   /\ UNCHANGED cacheFiles
              ELSE LET df == {d \in Dates : d >= start_date}
                       filtered_df == Filtered(df, start_date, end_date)
                       full == Written(cacheFiles,
                                  full_cache_filename(symbol, start_date), df)
                   IN  /\ cacheFiles' =
                             IF end_date # NoEndDate
                             THEN Written(full, name, filtered_df)
                             ELSE full
                       /\ lastCall' = Call(symbol, start_date, end_date,
                                           TRUE, TRUE, filtered_df)
       /\ previousCall' = lastCall
       /\ cacheUnchanged

\* the cache directory is emptied
ClearCache ==
    /\ cacheFiles # {}
    /\ cacheFiles' = {}
    /\ lastCall' = NoCall
    /\ previousCall' = NoCall
    /\ cacheUnchanged

CacheIdle ==
    /\ cacheFiles = {}
    /\ lastCall = NoCall
    /\ previousCall = NoCall

NextCache ==
    \/ GetOhlcvData
    \/ ClearCache


(***************************************************************************)
(* The scans of the auto-exit daemon over several symbols                  *)
(* (src/engine/auto_exit_daemon.py run and the head of handle_symbol),     *)
(* with a clock in seconds.  A handling takes no time but for its backoff  *)
(* sleep; there are fewer symbols than MAX_CONCURRENCY, so the semaphore   *)
(* never holds a worker back.                                              *)
(***************************************************************************)
SCAN_SEC == 2
ScanSymbolNames == {"A", "B"}
MaxScanStep == 3

scanUnchanged == UNCHANGED <<ipcVars, orderLog, timedVars, daemonVars,
                             loopVars, exitVars, supVars, safeVars,
                             backoffVars, botVars, dashVars, clientVars,
                             rmVars, envVars, cacheVars, dispatchVars,
                             mgrVars, ledgerVars>>

\* run(): positions fetched, one worker per listed symbol gathered.  Each
\* worker reads its step and, if positive, sleeps min(base ** step, max).
ScanStart ==
    /\ scanPc = "waiting"
    /\ scanClock = waitUntil
    /\ \E listed \in SUBSET ScanSymbolNames :
         /\ scanSymbols' = listed
         /\ workerPc' = [s \in ScanSymbolNames |->
                           IF s \in listed THEN "sleeping" ELSE "absent"]
    /\ wakeAt' = [s \in ScanSymbolNames |-> BackoffDelay(scanBackoffs[s])]
    /\ stepAtStart' = scanBackoffs
    /\ handledAt' = [s \in ScanSymbolNames |-> 0]
    /\ scanGap' = scanClock
    /\ scanClock' = 0
    /\ scanPc' = "gathering"
    /\ UNCHANGED <<scanBackoffs, waitUntil>>
    /\ scanUnchanged

\* handle_symbol after its sleep: fetch_positions raises, or the symbol is
\* handled (or found flat) and its counter is reset.
WorkerHandle ==
    /\ scanPc = "gathering"
    /\ \E s \in scanSymbols, raised \in BOOLEAN :
         /\ workerPc[s] = "sleeping"
         /\ wakeAt[s] <= scanClock
         /\ raised => scanBackoffs[s] < MaxScanStep
         /\ scanBackoffs' = [scanBackoffs EXCEPT ![s] = IF raised THEN @ + 1 ELSE 0]
         /\ workerPc' = [workerPc EXCEPT ![s] = "done"]
         /\ handledAt' = [handledAt EXCEPT ![s] = scanClock]
    /\ UNCHANGED <<scanPc, scanSymbols, wakeAt, stepAtStart, scanClock,
                   waitUntil, scanGap>>
    /\ scanUnchanged

\* asyncio.gather returns when every worker has; the state is saved and
\* wait_for(stop_event.wait(), timeout=SCAN_SEC) begins.
ScanGatherDone ==
    /\ scanPc = "gathering"
    /\ \A s \in scanSymbols : workerPc[s] = "done"
    /\ scanPc' = "waiting"
    /\ waitUntil' = scanClock + SCAN_SEC
    /\ UNCHANGED <<scanSymbols, scanBackoffs, workerPc, wakeAt, stepAtStart,
                   handledAt, scanClock, scanGap>>
    /\ scanUnchanged

\* A second passes: no worker is due and gather has not just finished, or
\* the wait between scans is not over.
ScanTick ==
    /\ \/ /\ scanPc = "gathering"
          /\ \E s \in scanSymbols : workerPc[s] = "sleeping"
          /\ \A s \in scanSymbols : workerPc[s] = "sleeping" => wakeAt[s] > scanClock
       \/ /\ scanPc = "waiting"
          /\ scanClock < waitUntil
    /\ scanClock' = scanClock + 1
    /\ UNCHANGED <<scanPc, scanSymbols, scanBackoffs, workerPc, wakeAt,
                   stepAtStart, handledAt, waitUntil, scanGap>>
    /\ scanUnchanged

ScanIdle ==
    /\ scanPc = "waiting"
    /\ scanSymbols = {}
    /\ scanBackoffs = [s \in ScanSymbolNames |-> 0]
    /\ workerPc = [s \in ScanSymbolNames |-> "absent"]
    /\ wakeAt = [s \in ScanSymbolNames |-> 0]
    /\ stepAtStart = [s \in ScanSymbolNames |-> 0]
    /\ handledAt = [s \in ScanSymbolNames |-> 0]
    /\ scanClock = 0
    /\ waitUntil = 0
    /\ scanGap = 0

NextScan == ScanStart \/ WorkerHandle \/ ScanGatherDone \/ ScanTick


(***************************************************************************)
(* The command names of the chat bot (src/notifier/bot_listener.py) and of *)
(* the engine's handle_command (src/engine/main_realtime.py): what the bot *)
(* passes to send_command, and what the engine makes of such a command.    *)
(* Parameters are the set of keys that carry a value.                      *)
(***************************************************************************)
\* The buttons cq_ipc_command_handler is registered for.
IpcButtons == {"show_balance", "show_summary", "show_config", "engine_stop",
               "engine_restart", "engine_run", "engine_resume", "order_close"}

\* command_map.get(cq.data, cq.data)
command_map(data) ==
    CASE data = "show_balance" -> "get_balance"
      [] data = "show_summary" -> "get_summary"
      [] data = "show_config" -> "get_config"
      [] OTHER -> data

\* The commands the conversations end with: process_amount,
\* process_model_path and process_tpsl_amount.
FlowDispatches ==
    {[command |-> c, params |-> {"symbol", "amount"}] : c \in {"order_buy", "order_sell"}}
    \cup {[command |-> "engine_switch_strategy",
           params |-> {"strategy_name", "model_path"}]}
    \cup {[command |-> c, params |-> {"symbol", "trigger_price", "amount"}] :
              c \in {"order_tp", "order_sl"}}

NoDispatch == [command |-> "none", params |-> {}]

\* The branches of handle_command.
RecognisedCommands ==
    {"get_balance", "get_summary", "get_config", "stop_engine", "restart_engine",
     "order_buy", "order_sell", "engine_resume", "engine_run", "engine_pause",
     "order_close", "engine_switch_strategy", "order_tp", "order_sl"}

\* The parameters a branch of handle_command refuses to go without.
RequiredParams(command) ==
    CASE command \in {"order_buy", "order_sell"} -> {"symbol", "amount"}
      [] command = "order_close" -> {"symbol"}
      [] command = "engine_switch_strategy" -> {"strategy_name", "model_path"}
      [] command \in {"order_tp", "order_sl"} -> {"symbol", "trigger_price", "amount"}
      [] OTHER -> {}

\* handle_command(session, command_data): how far the command gets
HandleCommandAnswer(cmd) ==
    IF cmd.command \notin RecognisedCommands THEN "unknown_command"
    ELSE IF ~(RequiredParams(cmd.command) \subseteq cmd.params) THEN "missing_params"
    ELSE "served"

dispatchUnchanged == UNCHANGED <<ipcVars, orderLog, timedVars, daemonVars,
                                 loopVars, exitVars, supVars, safeVars,
                                 backoffVars, botVars, dashVars, clientVars,
                                 rmVars, envVars, cacheVars, scanVars,
                                 mgrVars, ledgerVars>>

\* cq_ipc_command_handler: send_engine_command(cq.message, command_to_send)
IpcButtonClicked ==
    /\ \E data \in IpcButtons :
         ipcSent' = [command |-> command_map(data), params |-> {}]
    /\ ipcPrevious' = ipcSent
    /\ ipcAnswer' = "pending"
    /\ dispatchUnchanged

\* A conversation ends: send_engine_command(message, command, params)
IpcFlowEnds ==
    /\ \E d \in FlowDispatches : ipcSent' = d
    /\ ipcPrevious' = ipcSent
    /\ ipcAnswer' = "pending"
    /\ dispatchUnchanged

\* handle_command on the command as the bot passed it on
IpcHandled ==
    /\ ipcAnswer = "pending"
    /\ ipcAnswer' = HandleCommandAnswer(ipcSent)
    /\ UNCHANGED <<ipcSent, ipcPrevious>>
    /\ dispatchUnchanged

DispatchIdle == ipcSent = NoDispatch /\ ipcPrevious = NoDispatch /\ ipcAnswer = "none"

NextDispatch == IpcButtonClicked \/ IpcFlowEnds \/ IpcHandled


(***************************************************************************)
(* The in-process TradingEngine (src/engine/manager.py): start, stop and   *)
(* restart are plain methods run by the event loop's handlers; _run_loop   *)
(* is a task of the same loop, so one action covers its code between two   *)
(* awaits.  main_task.cancel() only marks the task: the CancelledError is  *)
(* raised in it when the loop runs it next, at the await it is parked on.  *)
(***************************************************************************)
MaxTasks == 3
MaxPendingRestarts == 1
NoTask == 0
TaskIds == 1..MaxTasks

mgrUnchanged == UNCHANGED <<ipcVars, orderLog, timedVars, daemonVars,
                            loopVars, exitVars, supVars, safeVars,
                            backoffVars, botVars, dashVars, clientVars,
                            rmVars, envVars, cacheVars, scanVars,
                            dispatchVars, ledgerVars>>

\* start(strategy, symbol)
start ==
    IF is_running
    THEN UNCHANGED <<is_running, main_task, taskPc, cancelRequested, startReported>>
    ELSE /\ is_running' = TRUE
         /\ main_task' = main_task + 1
         /\ taskPc' = [taskPc EXCEPT ![main_task + 1] = "created"]
         /\ startReported' = TRUE
         /\ UNCHANGED cancelRequested

\* stop()
stop ==
    IF ~is_running \/ main_task = NoTask
    THEN UNCHANGED <<is_running, main_task, taskPc, cancelRequested, startReported>>
    ELSE /\ is_running' = FALSE
         /\ cancelRequested' = [cancelRequested EXCEPT ![main_task] =
                                   taskPc[main_task] # "done"]
         /\ startReported' = FALSE
         /\ UNCHANGED <<main_task, taskPc>>

\* A handler calls start().
MgrStart ==
    /\ main_task < MaxTasks
    /\ start
    /\ UNCHANGED restartsPending
    /\ mgrUnchanged

\* A handler calls stop().
MgrStop ==
    /\ stop
    /\ UNCHANGED restartsPending
    /\ mgrUnchanged

\* restart() after a run: stop() and a task that sleeps 3 s and starts, or
\* start() at once if the engine is not running.
MgrRestart ==
    /\ main_task # NoTask
    /\ main_task < MaxTasks
    /\ IF is_running
       THEN /\ restartsPending < MaxPendingRestarts
            /\ stop
            /\ restartsPending' = restartsPending + 1
       ELSE /\ start
            /\ UNCHANGED restartsPending
    /\ mgrUnchanged

\* _restart_task after its sleep of 3 s, by when the loop has run every task
\* that was cancelled before the sleep began.
RestartTaskStarts ==
    /\ restartsPending > 0
    /\ \A t \in TaskIds : cancelRequested[t] => taskPc[t] = "done"
    /\ main_task < MaxTasks
    /\ start
    /\ restartsPending' = restartsPending - 1
    /\ mgrUnchanged

\* The code after the while loop: "Engine loop has stopped."
LoopEnds(t) ==
    /\ is_running' = FALSE
    /\ taskPc' = [taskPc EXCEPT ![t] = "done"]

\* while self.is_running: the next iteration begins, or the loop is left
WhileTest(t) ==
    IF is_running
    THEN taskPc' = [taskPc EXCEPT ![t] = "in_try"] /\ UNCHANGED is_running
    ELSE LoopEnds(t)

\* _run_loop runs from the await it is parked on to the next one.
RunLoopStep ==
    /\ \E t \in TaskIds, raises \in BOOLEAN :
         /\ taskPc[t] \notin {"none", "done"}
         /\ CASE taskPc[t] = "created" ->
                   \* cancelled before its first step, the task never runs
                   /\ taskPc' = [taskPc EXCEPT ![t] =
                                    IF cancelRequested[t] THEN "done" ELSE "report"]
                   /\ UNCHANGED is_running
              [] taskPc[t] = "report" ->
                   \* await self._check_and_send_daily_report(force=True),
                   \* outside the try block
                   IF cancelRequested[t]
                   THEN taskPc' = [taskPc EXCEPT ![t] = "done"] /\ UNCHANGED is_running
                   ELSE WhileTest(t)
              [] taskPc[t] = "in_try" ->
                   \* an await of the loop body: except asyncio.CancelledError:
                   \* break; except Exception: sleep and go on
                   IF cancelRequested[t] THEN LoopEnds(t)
                   ELSE IF raises
                   THEN taskPc' = [taskPc EXCEPT ![t] = "in_except"] /\ UNCHANGED is_running
                   ELSE WhileTest(t)
              [] taskPc[t] = "in_except" ->
                   \* await asyncio.sleep(60) in the except clause
                   IF cancelRequested[t]
                   THEN taskPc' = [taskPc EXCEPT ![t] = "done"] /\ UNCHANGED is_running
                   ELSE WhileTest(t)
    /\ UNCHANGED <<main_task, cancelRequested, startReported, restartsPending>>
    /\ mgrUnchanged

MgrIdle ==
    /\ is_running = FALSE
    /\ main_task = NoTask
    /\ taskPc = [t \in TaskIds |-> "none"]
    /\ cancelRequested = [t \in TaskIds |-> FALSE]
    /\ startReported = FALSE
    /\ restartsPending = 0

NextMgr == MgrStart \/ MgrStop \/ MgrRestart \/ RestartTaskStarts \/ RunLoopStep


(***************************************************************************)
(* The ledger of the reinforcement-learning environment                    *)
(* (src/core/trading_env.py step, src/core/rl/action_schemes.py): cash,    *)
(* position and equity over the steps of an episode run without fee and    *)
(* slippage.  Amounts are exact fractions [n, d] in lowest terms where the *)
(* code has floats, and the weights max(1e-9, x) are x, or 0 for x < 0.    *)
(***************************************************************************)
MaxLedgerSteps == 3
LedgerPrices == {20, 25, 40}
TradeActions == 0..8
trade_cfg == [taker_fee |-> [n |-> 0, d |-> 1], slippage_bps |-> [n |-> 0, d |-> 1]]

RECURSIVE GCD(_, _)
GCD(a, b) == IF b = 0 THEN a ELSE GCD(b, a % b)

Rat(n, d) ==
    LET g == GCD(IF n < 0 THEN -n ELSE n, d)
    IN  [n |-> n \div g, d |-> d \div g]

RInt(k) == [n |-> k, d |-> 1]
RAdd(a, b) == Rat(a.n * b.d + b.n * a.d, a.d * b.d)
RSub(a, b) == Rat(a.n * b.d - b.n * a.d, a.d * b.d)
RMul(a, b) == Rat(a.n * b.n, a.d * b.d)
RDiv(a, b) == Rat(a.n * b.d, a.d * b.n)
RPositive(a) == a.n > 0

initial_equity == RInt(1000)
target_notional_frac == Rat(1, 10)
leverage == RInt(1)

ledgerUnchanged == UNCHANGED <<ipcVars, orderLog, timedVars, daemonVars,
                               loopVars, exitVars, supVars, safeVars,
                               backoffVars, botVars, dashVars, clientVars,
                               rmVars, envVars, cacheVars, scanVars,
                               dispatchVars, mgrVars>>

\* _get_execution_price(price, bps, trade_side)
_get_execution_price(aPrice, bps, trade_side) ==
    RMul(aPrice, RAdd(RInt(1), RDiv(RMul(RInt(trade_side), bps), RInt(10000))))

\* _calculate_costs(quantity, exec_price, fee_rate)
_calculate_costs(quantity, exec_price, fee_rate) ==
    RMul(RMul(quantity, exec_price), fee_rate)

Outcome(new_side, new_size, costs, exec_price) ==
    [new_side |-> new_side, new_size |-> new_size, costs |-> costs,
     exec_price |-> exec_price]

_handle_hold(aPrice, aSide, aSize) == Outcome(aSide, aSize, RInt(0), aPrice)

_handle_open(action, aPrice, cfg, target_notional) ==
    LET strength == IF action \in {2, 4} THEN RInt(2) ELSE RInt(1)
        qty == RDiv(RMul(target_notional, strength), aPrice)
        new_side == IF action \in {1, 2} THEN 1 ELSE -1
        exec_price == _get_execution_price(aPrice, cfg.slippage_bps, new_side)
    IN  Outcome(new_side, qty, _calculate_costs(qty, exec_price, cfg.taker_fee),
                exec_price)

_handle_close(aPrice, aSide, aSize, cfg) ==
    IF ~RPositive(aSize) THEN _handle_hold(aPrice, aSide, aSize)
    ELSE LET exec_price == _get_execution_price(aPrice, cfg.slippage_bps, -aSide)
         IN  Outcome(0, RInt(0), _calculate_costs(aSize, exec_price, cfg.taker_fee),
                     exec_price)

_handle_add(aPrice, aSide, aSize, cfg) ==
    IF aSide = 0 THEN _handle_hold(aPrice, aSide, aSize)
    ELSE LET add_qty == RMul(aSize, Rat(1, 2))
             exec_price == _get_execution_price(aPrice, cfg.slippage_bps, aSide)
         IN  Outcome(aSide, RAdd(aSize, add_qty),
                     _calculate_costs(add_qty, exec_price, cfg.taker_fee), exec_price)

_handle_reduce(aPrice, aSide, aSize, cfg) ==
    IF aSide = 0 \/ ~RPositive(aSize) THEN _handle_hold(aPrice, aSide, aSize)
    ELSE LET reduce_qty == RMul(aSize, Rat(1, 2))
             exec_price == _get_execution_price(aPrice, cfg.slippage_bps, -aSide)
             new_size == RSub(aSize, reduce_qty)
         IN  Outcome(IF RPositive(new_size) THEN aSide ELSE 0, new_size,
                     _calculate_costs(reduce_qty, exec_price, cfg.taker_fee),
                     exec_price)

_handle_reverse(aPrice, aSide, aSize, cfg, target_notional) ==
    IF aSide = 0 THEN _handle_open(1, aPrice, cfg, target_notional)
    ELSE LET close_exec_price == _get_execution_price(aPrice, cfg.slippage_bps, -aSide)
             open_exec_price == _get_execution_price(aPrice, cfg.slippage_bps, -aSide)
         IN  Outcome(-aSide, aSize,
                     RAdd(_calculate_costs(aSize, close_exec_price, cfg.taker_fee),
                          _calculate_costs(aSize, open_exec_price, cfg.taker_fee)),
                     open_exec_price)

\* apply_action(action, price, side, size, equity, leverage, cfg,
\* target_notional_frac)
apply_action(action, aPrice, aSide, aSize, equity, cfg) ==
    LET target_notional == RMul(RMul(equity, target_notional_frac), leverage)
    IN  CASE action = 0 -> _handle_hold(aPrice, aSide, aSize)
          [] action \in 1..4 -> _handle_open(action, aPrice, cfg, target_notional)
          [] action = 5 -> _handle_close(aPrice, aSide, aSize, cfg)
          [] action = 6 -> _handle_add(aPrice, aSide, aSize, cfg)
          [] action = 7 -> _handle_reduce(aPrice, aSide, aSize, cfg)
          [] action = 8 -> _handle_reverse(aPrice, aSide, aSize, cfg, target_notional)

\* unrealized_pnl(side, size, entry_price, price)
unrealized_pnl(aSide, aSize, entry, aPrice) ==
    IF aSide = 0 \/ ~RPositive(aSize) \/ ~RPositive(entry) THEN RInt(0)
    ELSE RMul(RMul(RSub(aPrice, entry), aSize), RInt(aSide))

\* step(action): _apply_action_and_update_position at the bar's close, then
\* _update_equity_and_pnl at the same price.
LedgerStep ==
    /\ ledgerSteps < MaxLedgerSteps
    /\ \E action \in TradeActions, close \in LedgerPrices :
         LET price == RInt(close)
             o == apply_action(action, price, ledgerSide, ledgerSize,
                               ledgerEquity, trade_cfg)
             changed == o.new_size # ledgerSize \/ o.new_side # ledgerSide
             realizes == /\ changed
                         /\ ledgerSide # 0
                         /\ (o.new_side # ledgerSide \/ ~RPositive(o.new_size))
             realized_pnl == IF realizes
                             THEN unrealized_pnl(ledgerSide, ledgerSize, ledgerEntry,
                                                 o.exec_price)
                             ELSE RInt(0)
             w1 == ledgerSize
             grown == RSub(o.new_size, ledgerSize)
             w2 == IF RPositive(grown) THEN grown ELSE RInt(0)
             entry == IF ~changed THEN ledgerEntry
                      ELSE IF o.new_side # 0 /\ RPositive(o.new_size)
                      THEN IF ledgerSide = o.new_side
                           THEN RDiv(RAdd(RMul(ledgerEntry, w1), RMul(o.exec_price, w2)),
                                     RAdd(w1, w2))
                           ELSE o.exec_price
                      ELSE RInt(0)
             cash == RSub(RAdd(ledgerCash, realized_pnl), o.costs)
         IN  /\ markBefore' = RAdd(ledgerCash,
                                   unrealized_pnl(ledgerSide, ledgerSize, ledgerEntry, price))
             /\ ledgerCash' = cash
             /\ ledgerSide' = o.new_side
             /\ ledgerSize' = o.new_size
             /\ ledgerEntry' = entry
             /\ ledgerEquity' = RAdd(cash, unrealized_pnl(o.new_side, o.new_size,
                                                          entry, price))
             /\ lastTradeAction' = action
    /\ ledgerSteps' = ledgerSteps + 1
    /\ ledgerUnchanged

\* reset()
LedgerReset ==
    /\ ledgerSteps > 0
    /\ ledgerCash' = initial_equity
    /\ ledgerEquity' = initial_equity
    /\ ledgerEntry' = RInt(0)
    /\ ledgerSize' = RInt(0)
    /\ ledgerSide' = 0
    /\ markBefore' = initial_equity
    /\ lastTradeAction' = 0
    /\ ledgerSteps' = 0
    /\ ledgerUnchanged

LedgerIdle ==
    /\ ledgerCash = initial_equity
    /\ ledgerEquity = initial_equity
    /\ ledgerEntry = RInt(0)
    /\ ledgerSize = RInt(0)
    /\ ledgerSide = 0
    /\ markBefore = initial_equity
    /\ lastTradeAction = 0
    /\ ledgerSteps = 0

NextLedger == LedgerStep \/ LedgerReset

(***************************************************************************)
(* The IPC specification.                                                  *)
(***************************************************************************)
InitIPC ==
    /\ commandQueueFile = <<>>
    /\ queueLock = "free"
    /\ resultFiles = [id \in Ids |-> "absent"]
    /\ callerPc = [c \in Callers |-> "idle"]
    /\ callerId = [c \in Callers |-> 0]
    /\ callerQueue = [c \in Callers |-> <<>>]
    /\ callerRead = [c \in Callers |-> "none"]
    /\ returned = [c \in Callers |-> "none"]
    /\ enginePc = "idle"
    /\ engineQueue = <<>>
    /\ engineCmd = NoCmd
    /\ engine_running = TRUE
    /\ nextId = 0
    /\ appended = <<>>
    /\ delivered = <<>>
    /\ handled = {}
    /\ written = {}
    /\ retrieved = [id \in Ids |-> 0]
    /\ lostByCrash = {}
    /\ orderLog = {}

NextIPC ==
    \/ \E c \in Callers : SendAcquireRead(c)
    \/ \E c \in Callers : SendWriteRelease(c)
    \/ \E c \in Callers : SendLockTimeout(c)
    \/ \E c \in Callers : AwaitCall(c)
    \/ \E c \in Callers : AwaitExists(c)
    \/ \E c \in Callers : AwaitRead(c)
    \/ \E c \in Callers : AwaitUnlinkReturn(c)
    \/ \E c \in Callers : AwaitTimeout(c)
    \/ GetAcquireRead
    \/ GetReturnNone
    \/ GetPopWrite
    \/ handle_command
    \/ LoopExit
    \/ EngineCrash
    \/ EngineRestart

Init == InitIPC /\ TimedIdle /\ DaemonIdle /\ LoopIdle /\ ExitIdle /\ SupIdle
        /\ SafeIdle /\ BackoffIdle /\ BotIdle /\ DashIdle /\ ClientIdle
        /\ RmIdle /\ EnvIdle /\ CacheIdle /\ ScanIdle /\ DispatchIdle
        /\ MgrIdle /\ LedgerIdle

SpecIPC == Init /\ [][NextIPC]_vars

SpecTimed == Init /\ [][NextTimed]_vars

SpecDaemon == Init /\ [][NextDaemon]_vars

SpecEngine == Init /\ [][NextEngine]_vars

SpecExit == Init /\ [][NextExit]_vars

SpecSupervisor == Init /\ [][NextSupervisor]_vars

SpecSafeOrder == Init /\ [][NextSafe]_vars

SpecBackoff == Init /\ [][NextBackoff]_vars

SpecBot == Init /\ [][NextBot]_vars

SpecDash == Init /\ [][NextDash]_vars

SpecClient == Init /\ [][NextClient]_vars

SpecRm == Init /\ [][NextRm]_vars

SpecEnv == Init /\ [][NextEnv]_vars

SpecCache == Init /\ [][NextCache]_vars

SpecScan == Init /\ [][NextScan]_vars

SpecDispatch == Init /\ [][NextDispatch]_vars

SpecMgr == Init /\ [][NextMgr]_vars

SpecLedger == Init /\ [][NextLedger]_vars

(***************************************************************************)
(* Properties of the IPC command bus, checked under SpecIPC.               *)
(***************************************************************************)

\* C1: a command enqueued by send_command is returned by get_command at most
\* once, whatever the interleaving of producers and consumer and across an
\* engine crash and restart between the pop and the result write.
C1_DeliveredAtMostOnce == \A id \in Ids : Occurrences(delivered, id) <= 1

\* A command was popped, the engine crashed before writing its result, was
\* restarted and popped the next command.
C1_Witness ==
    /\ \E id \in lostByCrash : id \notin written /\ delivered[1] = id
    /\ Len(delivered) = 2
    /\ enginePc = "handling"

\* C2: every order submitted to exit or reduce a position carries
\* reduceOnly=true.
C2_ExitOrdersReduceOnly == \A o \in orderLog : o.exit => o.reduceOnly

C5_ResultConsumedAtMostOnce ==
    \A id \in Ids : /\ retrieved[id] <= 1
                    /\ retrieved[id] >= 1 => resultFiles[id] = "absent"

\* C6: commands are delivered in the order their appends completed, and none
\* is lost or reordered: the ids delivered so far followed by the ids still in
\* the queue file are exactly the ids appended, in append order.
C6_FifoNoLoss == delivered \o IdsOf(commandQueueFile) = appended

\* Two commands were appended while one producer found the lock taken by
\* another process, and both were delivered.
C6_Witness ==
    /\ Len(delivered) = 2
    /\ \E c \in Callers : returned[c] = "error_lock_timeout"

(***************************************************************************)
(* Properties of send_command/await_result against the clock, checked      *)
(* under SpecTimed.                                                        *)
(***************************************************************************)

\* C7 as stated: when no result appears in time the call returns a structured
\* error no later than the timeout plus one polling interval after it was
\* made.
C7_ReturnsWithinTimeoutPlusPoll ==
    tReturned = "error_timeout" =>
        tReturnedAt - tCalled <= tTimeout * TicksPerSecond + PollTicks

\* C7, amended: every call ends in a result or a structured error; the wait
\* for the queue lock ends within LOCK_TIMEOUT, with a structured error when
\* the lock was not obtained; await_result returns its timeout error within
\* the timeout plus one polling interval of its own start, so send_command
\* returns it within LOCK_TIMEOUT plus the timeout plus one polling interval.
C7_BoundedFromLockAcquisition ==
    /\ tPc = "done" =>
         tReturned \in {"result", "error_timeout", "error_lock_timeout"}
    /\ tPc = "lock_wait" => now - tCalled <= LOCK_TIMEOUT * TicksPerSecond
    /\ tPc \in {"polling", "sleeping"} =>
         now - start_time <= tTimeout * TicksPerSecond + PollTicks
    /\ tReturned = "error_lock_timeout" =>
         tReturnedAt - tCalled <= LOCK_TIMEOUT * TicksPerSecond
    /\ tReturned = "error_timeout" =>
         /\ tReturnedAt - start_time <= tTimeout * TicksPerSecond + PollTicks
         /\ tReturnedAt - tCalled <=
              (LOCK_TIMEOUT + tTimeout) * TicksPerSecond + PollTicks

\* send_command waited for the queue lock for more than one polling interval,
\* obtained it, and then timed out waiting for the result.
C7_Witness ==
    /\ tReturned = "error_timeout"
    /\ start_time - tCalled > PollTicks
    /\ tReturnedAt - start_time >= tTimeout * TicksPerSecond

(***************************************************************************)
(* Properties of the auto-exit daemon, checked under SpecDaemon.           *)
(***************************************************************************)

\* C3: for one open position the daemon submits TP1 at most once and TP2 at
\* most once, and never TP2 before TP1 has fired.
C3_EachStageOnceInOrder ==
    /\ \A i, j \in DOMAIN tpLog : tpLog[i].portion = tpLog[j].portion => i = j
    /\ \A j \in DOMAIN tpLog :
         tpLog[j].portion = "TP2" => \E i \in 1..(j - 1) : tpLog[i].portion = "TP1"

\* C8: after a restart the daemon does not fire again a partial take-profit
\* it had fired before the restart for the position that is still open.
C8_NoRefireAfterRestart ==
    \A i \in 1..restartAt, j \in (restartAt + 1)..Len(tpLog) :
        tpLog[i].portion # tpLog[j].portion

\* C9: TP1 closes TP1_RATIO of the position's quantity and TP2 the rest: the
\* two amounts add up to the quantity the position had when TP1 fired.
C9_PartialExitsCloseWholePosition ==
    \A i, j \in DOMAIN tpLog :
        (i < j /\ tpLog[i].portion = "TP1" /\ tpLog[j].portion = "TP2") =>
            /\ tpLog[i].amount * 100 = tpLog[i].qty * TP1_RATIO
            /\ tpLog[i].amount + tpLog[j].amount = tpLog[i].qty

\* C10: trail_update moves an existing stop only to tighten it.
C10_TrailOnlyTightens == lastTrail # "loosened"


(***************************************************************************)
(* C11: the stop command is acknowledged only after the trading task has   *)
(* run to completion, so no step of the trading loop (scan, analysis,      *)
(* order) is taken once the acknowledgement has been written.              *)
(***************************************************************************)
C11_StopAckedAfterLoopEnded == stopAcked => mainPc = "returned"

(***************************************************************************)
(* C12: an exception that escapes a trading cycle is reported as ERROR and *)
(* notified, and after the backoff the loop goes on with the next cycle:   *)
(* the loop does not end while the engine has not been told to stop.       *)
(***************************************************************************)
C12_LoopSurvivesCycleError ==
    [][(mainPc = "error_backoff" /\ engine_running /\ mainPc' # mainPc)
         => mainPc' = "cycle_top"]_vars

(***************************************************************************)
(* C13: a cycle that begins after engine_switch_strategy has stored new    *)
(* settings runs with the stored strategy name and model path.             *)
(***************************************************************************)
C13_CycleUsesStoredSettings ==
    mainPc \in {"scanning", "analysing", "executing"} =>
        /\ strategy_name = settingsAtCycle.strategy_name
        /\ model_path = settingsAtCycle.model_path


(***************************************************************************)
(* C14: over the evaluate_and_act calls on one position the stored         *)
(* trail_price never decreases for a long and never increases for a short. *)
(***************************************************************************)
C14_ExitTrailOnlyTightens ==
    [][(ps # NoPs /\ ps' # NoPs) =>
          /\ ps.side = "long" => ps'.trail_price >= ps.trail_price
          /\ ps.side = "short" => ps'.trail_price <= ps.trail_price]_vars

(***************************************************************************)
(* C15: for one position each partial close is executed at most once, TP1  *)
(* only while it is not realized, TP2 only after TP1 and while TP2 is not  *)
(* realized: the partial closes run are none, TP1, or TP1 then TP2, and    *)
(* the realized flags say which.                                           *)
(***************************************************************************)
C15_Tp1ThenTp2Once ==
    ps # NoPs =>
        /\ exitLog \in {<<>>, <<"tp1">>, <<"tp1", "tp2">>}
        /\ ps.realized_tp1 <=> Len(exitLog) >= 1
        /\ ps.realized_tp2 <=> Len(exitLog) = 2

C14_Witness ==
    /\ ps # NoPs
    /\ exitResult = "hold"
    /\ \/ ps.side = "long" /\ ps.trail_price > ps.entry_price
       \/ ps.side = "short" /\ ps.trail_price < ps.entry_price

C15_Witness == ps # NoPs /\ exitLog = <<"tp1", "tp2">> /\ exitResult = "hold"


\* The last n health checks all failed.
LastFailed(n) ==
    /\ Len(checks) >= n
    /\ \A i \in (Len(checks) - n + 1)..Len(checks) : ~checks[i]

(***************************************************************************)
(* C16: the monitor requests termination of both children exactly when     *)
(* three consecutive health checks have failed: a monitor that has         *)
(* triggered saw its last three checks fail and has sent SIGTERM to every  *)
(* child still alive, and a monitor that has not triggered has not seen    *)
(* three failures in a row and has sent no SIGTERM.                        *)
(***************************************************************************)
C16_TerminateAtThreeConsecutive ==
    /\ monitorPc = "triggered" =>
          /\ LastFailed(3)
          /\ \A c \in Children : termAt[c] # -1 \/ ~Alive(c)
    /\ monitorPc = "sleeping" =>
          /\ ~LastFailed(3)
          /\ \A c \in Children : termAt[c] = -1

C16_Witness ==
    /\ monitorPc = "triggered"
    /\ \E i \in 1..Len(checks) : checks[i]
    /\ \E i \in 1..Len(checks) : ~checks[i] /\ i < Len(checks) - 2
    /\ \A c \in Children : termAt[c] # -1

(***************************************************************************)
(* C17: on every shutdown path a child that has not exited within the      *)
(* 10-second grace period after it was sent SIGTERM is sent SIGKILL: no    *)
(* child is alive, unkilled, more than the grace period after its SIGTERM. *)
(***************************************************************************)
C17_KillAfterGrace ==
    \A c \in Children :
        (termAt[c] # -1 /\ Alive(c)) => supNow - termAt[c] <= GraceTicks


C19_AbortsBelowMinimum ==
    \A i \in 1..Len(outcomes) :
        (/\ outcomes[i] = "insufficient"
         /\ ReducedTenPercent(sent[i], min_qty) < min_qty)
        => /\ Len(sent) = i
           /\ safePc = "returned"
           /\ safeResult = "insufficient_funds_after_retries"


(***************************************************************************)
(* C20: when the daemon touches a symbol again after handlings that met a  *)
(* network or exchange error, it has waited min(base^failures, 60 s) for   *)
(* the number of such handlings in a row, and a handling without an error  *)
(* resets the count.                                                       *)
(***************************************************************************)
C20_BackoffAfterEachError ==
    /\ bPc = "handling" => bDelay = BackoffDelay(bErrors)
    /\ bLast \in {"handled", "no_position"} => bStep = 0


(***************************************************************************)
(* C21: a TP/SL flow goes side, symbol, trigger price, amount, and the     *)
(* order_tp / order_sl command it dispatches carries the chosen symbol,    *)
(* trigger price and amount.                                               *)
(***************************************************************************)
C21_TpslFlowOrderAndParams ==
    \A i \in 1..Len(dispatchLog) :
        dispatchLog[i].command \in {"order_tp", "order_sl"} =>
            /\ dispatchLog[i].steps = <<"side", "symbol", "price", "amount">>
            /\ dispatchLog[i].params.symbol # "-"
            /\ dispatchLog[i].params.trigger_price # "-"
            /\ dispatchLog[i].params.amount # "-"

(***************************************************************************)
(* C22: every completed order-entry flow has appended exactly one          *)
(* order_buy / order_sell command with its symbol and amount to the IPC    *)
(* command queue.                                                          *)
(***************************************************************************)
C22_OrderFlowAppendsOneCommand ==
    LET orders(log) == SelectSeq(log, LAMBDA e : e.command \in {"order_buy", "order_sell"})
    IN  /\ Len(orders(botQueue)) = Len(orders(dispatchLog))
        /\ \A i \in 1..Len(orders(botQueue)) :
              /\ orders(botQueue)[i].command = orders(dispatchLog)[i].command
              /\ orders(botQueue)[i].params = orders(dispatchLog)[i].params

(***************************************************************************)
(* C23: after a cancel sent during a flow in progress, the flow's state    *)
(* and collected data are gone and no command is dispatched from it.       *)
(***************************************************************************)
C23_CancelClearsFlow ==
    /\ cancelled => fsmState = "none" /\ fsmData = NoData
    /\ \A i \in 1..Len(dispatchLog) : ~dispatchLog[i].afterCancel


(***************************************************************************)
(* C24: the engine bridge answers a start request with HTTP 409 when the   *)
(* engine is already running, and answers a stop or a strategy switch      *)
(* against an engine that is not running with HTTP 409.                    *)
(***************************************************************************)
C24_Conflict409 ==
    /\ lastRequest.action = "run" /\ lastRequest.wasRunning
          => lastRequest.status = 409
    /\ lastRequest.action \in {"stop", "switch_strategy"}
          /\ ~lastRequest.wasRunning
          => lastRequest.status = 409


C26_WorkersWithinBounds ==
    rmPc # "none"
       => min_workers <= current_workers /\ current_workers <= max_workers

(***************************************************************************)
(* C27: a monitoring sample taken while more than 2 submitted tasks wait   *)
(* for a worker, with CPU and memory more than 10 points below their       *)
(* thresholds in every sample of the average, raises the worker count by   *)
(* one unless it is max_workers already.                                   *)
(***************************************************************************)
C27_ScalesUpOnBacklog ==
    /\ lastSample.taken
    /\ lastSample.samples >= 2
    /\ lastSample.waiting > 2
    /\ lastSample.comfortable
    /\ lastSample.before < max_workers
    => lastSample.after = lastSample.before + 1


(***************************************************************************)
(* C28: while the drawdown has not reached its limit, step() returns       *)
(* truncated (and not terminated) on the max_steps-th call after reset()   *)
(* and on no other call.                                                   *)
(***************************************************************************)
C28_TruncatedAtMaxSteps ==
    stepsTaken > 0 /\ ~max_drawdown_reached
       => /\ ~terminated
          /\ truncated <=> stepsTaken = envCfg.max_steps


(***************************************************************************)
(* C29: of two consecutive calls of get_ohlcv_data with the same symbol    *)
(* and date range, the first of them fetching from the exchange and        *)
(* returning a frame, the second makes no fetch and returns the same       *)
(* frame from the cache file the first one wrote.                          *)
(***************************************************************************)
C29_SecondCallServedFromCache ==
    /\ previousCall.fetched /\ previousCall.gotFrame
    /\ lastCall.symbol = previousCall.symbol
    /\ lastCall.start_date = previousCall.start_date
    /\ lastCall.end_date = previousCall.end_date
    => /\ ~lastCall.fetched
       /\ lastCall.gotFrame
       /\ lastCall.frame = previousCall.frame

C31_OrderFollowsRecommendation ==
    /\ cycleSignal = "buy" => cycleOrder \in {"buy", "failed", "halted"}
    /\ cycleSignal = "sell" => cycleOrder \in {"sell", "failed", "halted"}
    /\ cycleOrder \in {"buy", "sell"} => cycleOrder = cycleSignal

(***************************************************************************)
(* C32: a take-profit stage of the Exit Controller is flagged as realized  *)
(* only if its reduce order was accepted, so that a stage whose order      *)
(* failed is attempted again.                                              *)
(***************************************************************************)
C32_RealizedOnlyIfAccepted ==
    ps # NoPs =>
        /\ ps.realized_tp1 => "tp1" \in acceptedStages
        /\ ps.realized_tp2 => "tp2" \in acceptedStages

(***************************************************************************)
(* C33: the reduce orders accepted for one registered position (TP1, TP2   *)
(* and close-all) sum to at most its quantity, and at most one close-all   *)
(* order is sent for it.                                                   *)
(***************************************************************************)
C33_ReduceOrdersWithinQty ==
    ps # NoPs => sentQty <= ps.qty /\ closeAllSent <= 1

(***************************************************************************)
(* C34: the per-symbol state the auto-exit daemon recorded for one         *)
(* position is never applied to another one: whenever handle_symbol is     *)
(* about to run on an open position with a loaded state, a stage flagged   *)
(* as done in that state was fired for this very position.                 *)
(***************************************************************************)
C34_StateBelongsToPosition ==
    (daemonPc = "handle" /\ position # NoPos /\ state # <<>>) =>
        /\ state[1].tp1_done => \E i \in 1..Len(tpLog) : tpLog[i].portion = "TP1"
        /\ state[1].tp2_done => \E i \in 1..Len(tpLog) : tpLog[i].portion = "TP2"


(***************************************************************************)
(* C35: a symbol in error backoff does not delay the others: the symbols   *)
(* without a backoff are handled as the scan begins, and the next scan     *)
(* begins within the scan interval of the one before.                      *)
(***************************************************************************)
C35_BackoffDelaysNothing ==
    /\ \A s \in scanSymbols :
         (workerPc[s] = "done" /\ stepAtStart[s] = 0) => handledAt[s] = 0
    /\ scanGap <= SCAN_SEC


(***************************************************************************)
(* C36: engine_switch_strategy changes only the strategy and model-path    *)
(* fields of the settings file: no step of the engine changes which other  *)
(* keys the file holds.                                                    *)
(***************************************************************************)
C36_SwitchKeepsOtherKeys ==
    [][settingsFile'.other_keys = settingsFile.other_keys]_vars


(***************************************************************************)
(* C37: every command the bot listener dispatches is recognised by         *)
(* handle_command and can be served with the parameters the bot sends.     *)
(***************************************************************************)
C37_DispatchedCommandsServable ==
    ipcAnswer \in {"none", "pending", "served"}

(***************************************************************************)
(* C38: get_bybit_client never hands out a closed client: the instance a   *)
(* call returns is not one that close() had been called on before the      *)
(* call returned.                                                          *)
(***************************************************************************)
C38_NeverHandsOutClosed ==
    \A c \in GetCallers : ~gotClosed[c]


(***************************************************************************)
(* C39: once start() has reported success, is_running is true and the      *)
(* loop task it created is alive until the next stop(), however the        *)
(* shutdown of a loop cancelled before interleaves with the start.         *)
(***************************************************************************)
C39_StartedLoopKeepsRunning ==
    startReported => is_running /\ taskPc[main_task] # "done"


(***************************************************************************)
(* C40: without fee and slippage, an action applied at the current price   *)
(* leaves the equity unchanged: after a step, cash plus unrealized PnL is   *)
(* what it was at that price before the action, REDUCE_POSITION included.  *)
(***************************************************************************)
C40_EquityConserved ==
    ledgerEquity = markBefore

====
